---- MODULE Spec2Model ----
(***************************************************************************)
(* Model of the queen migration orchestrator (package queen), its natural  *)
(* order comparator (internal/sort) and the Driver contract as the mock    *)
(* driver (drivers/mock) and the SQL drivers implement it.                 *)
(*                                                                         *)
(* A version string is a sequence of one-character strings, so that the    *)
(* comparator can scan it as the code does.  Every driver call is one      *)
(* atomic step (the mock driver holds its mutex for the whole call); the   *)
(* orchestrator's own computation between two driver calls is folded into  *)
(* the step of the driver call that precedes it.                           *)
(***************************************************************************)
EXTENDS Integers, Sequences, FiniteSets, TLC

(***************************************************************************)
(* Bounds of the model.                                                    *)
(***************************************************************************)
MaxReg == 2        \* registry length
MaxN == 2          \* largest step count passed to UpSteps / Down
NumProcs == 2      \* orchestrators sharing one driver store in SpecConc
MaxLen == 3        \* length of the version strings Compare is given in SpecCompare
MaxRun == 20       \* length of the long digit runs Compare is given in SpecCompare
MaxTri == 2        \* length of the strings of the triples in SpecCompare

(***************************************************************************)
(* internal/sort: Compare and its helpers.                                 *)
(***************************************************************************)
Digits == {"0", "1", "2", "3", "4", "5", "6", "7", "8", "9"}

DigitVal(c) ==
    CASE c = "0" -> 0 [] c = "1" -> 1 [] c = "2" -> 2 [] c = "3" -> 3
      [] c = "4" -> 4 [] c = "5" -> 5 [] c = "6" -> 6 [] c = "7" -> 7
      [] c = "8" -> 8 [] c = "9" -> 9

Letters ==
    <<"a", "b", "c", "d", "e", "f", "g", "h", "i", "j", "k", "l", "m",
      "n", "o", "p", "q", "r", "s", "t", "u", "v", "w", "x", "y", "z">>

\* byte value of the characters version strings are built from
CharCode(c) ==
    CASE c \in Digits -> 48 + DigitVal(c)
      [] c = "_" -> 95
      [] OTHER -> 96 + (CHOOSE k \in 1 .. Len(Letters) : Letters[k] = c)

IsDigit(c) == c \in Digits

sign(n) == IF n < 0 THEN -1 ELSE IF n > 0 THEN 1 ELSE 0

(***************************************************************************)
(* Go's int, IntBits wide in two's complement (64 bits on the 64-bit       *)
(* platforms).  A value is kept as its limbs of 16 bits, lowest first; a   *)
(* carry or borrow out of the top limb is dropped, which is the wrap-      *)
(* around of the machine arithmetic.                                       *)
(***************************************************************************)
IntBits == 64

LimbBase == 256 * 256

IntZero == [k \in 1 .. (IntBits \div 16) |-> 0]

\* the limbs of w * 10 + carry from limb k on
RECURSIVE timesTenFrom(_, _, _)
timesTenFrom(w, k, carry) ==
    IF k > Len(w) THEN <<>>
    ELSE LET t == w[k] * 10 + carry
         IN  <<t % LimbBase>> \o timesTenFrom(w, k + 1, t \div LimbBase)

\* num*10 + int(s[i]-'0')
IntTimesTenPlus(w, d) == timesTenFrom(w, 1, d)

\* the limbs of x - y - borrow from limb k on
RECURSIVE minusFrom(_, _, _, _)
minusFrom(x, y, k, borrow) ==
    IF k > Len(x) THEN <<>>
    ELSE LET t == x[k] - y[k] - borrow
         IN  <<IF t < 0 THEN t + LimbBase ELSE t>>
                 \o minusFrom(x, y, k + 1, IF t < 0 THEN 1 ELSE 0)

\* numA - numB
IntMinus(x, y) == minusFrom(x, y, 1, 0)

\* -1, 0 or 1 as the int is negative, zero or positive: all that sign reads
IntSignum(w) ==
    IF w[Len(w)] >= LimbBase \div 2 THEN -1
    ELSE IF w = IntZero THEN 0 ELSE 1

\* mutant: only the first digit of the run is read
extractNumberFirstDigit(s, i) ==
    IF i > Len(s) \/ ~IsDigit(s[i]) THEN <<IntZero, i>>
    ELSE <<IntTimesTenPlus(IntZero, DigitVal(s[i])), i + 1>>

\* the loop of extractNumber: <<num, i>> after consuming the digit run at i
RECURSIVE numLoop(_, _, _)
numLoop(s, i, num) ==
    IF i <= Len(s) /\ IsDigit(s[i])
    THEN numLoop(s, i + 1, IntTimesTenPlus(num, DigitVal(s[i])))
    ELSE <<num, i>>

\* positions are 1-based here; the code's are 0-based
extractNumber(s, i) ==
    IF i > Len(s) \/ ~IsDigit(s[i]) THEN <<IntZero, i>> ELSE numLoop(s, i, IntZero)

RECURSIVE strEnd(_, _)
strEnd(s, i) ==
    IF i <= Len(s) /\ ~IsDigit(s[i]) THEN strEnd(s, i + 1) ELSE i

extractString(s, i) == <<SubSeq(s, i, strEnd(s, i) - 1), strEnd(s, i)>>

\* Go's < on strings: bytewise lexicographic, a proper prefix sorts first
RECURSIVE StrLess(_, _)
StrLess(x, y) ==
    IF Len(y) = 0 THEN FALSE
    ELSE IF Len(x) = 0 THEN TRUE
    ELSE IF CharCode(Head(x)) # CharCode(Head(y))
         THEN CharCode(Head(x)) < CharCode(Head(y))
         ELSE StrLess(Tail(x), Tail(y))

RECURSIVE compareFrom(_, _, _, _)
compareFrom(a, b, ia, ib) ==
    IF ~(ia <= Len(a) /\ ib <= Len(b))
    THEN sign(Len(a) - Len(b))
    ELSE LET na == extractNumber(a, ia)
             nb == extractNumber(b, ib)
         IN  IF na[2] > ia /\ nb[2] > ib
             THEN IF na[1] # nb[1]
                  THEN sign(IntSignum(IntMinus(na[1], nb[1])))
                  ELSE compareFrom(a, b, na[2], nb[2])
             ELSE LET sa == extractString(a, ia)
                      sb == extractString(b, ib)
                  IN  IF sa[1] # sb[1]
                      THEN IF StrLess(sa[1], sb[1]) THEN -1 ELSE 1
                      ELSE compareFrom(a, b, sa[2], sb[2])

Compare(a, b) == compareFrom(a, b, 1, 1)

\* the positions <<ia, ib>> at which the loop of Compare ends without having
\* returned, <<0, 0>> when it returns from inside
RECURSIVE scanEnd(_, _, _, _)
scanEnd(a, b, ia, ib) ==
    IF ~(ia <= Len(a) /\ ib <= Len(b)) THEN <<ia, ib>>
    ELSE LET na == extractNumber(a, ia)
             nb == extractNumber(b, ib)
         IN  IF na[2] > ia /\ nb[2] > ib
             THEN IF na[1] # nb[1] THEN <<0, 0>>
                  ELSE scanEnd(a, b, na[2], nb[2])
             ELSE LET sa == extractString(a, ia)
                      sb == extractString(b, ib)
                  IN  IF sa[1] # sb[1] THEN <<0, 0>>
                      ELSE scanEnd(a, b, sa[2], sb[2])

(***************************************************************************)
(* Migration (migration.go).  UpFunc / DownFunc say whether the function   *)
(* field is non-nil; UpSQL / DownSQL / ManualChecksum are the strings.     *)
(***************************************************************************)
M(version, name, upSQL, upFunc, downSQL, downFunc, manual) ==
    [Version |-> version, Name |-> name, UpSQL |-> upSQL, UpFunc |-> upFunc,
     DownSQL |-> downSQL, DownFunc |-> downFunc, ManualChecksum |-> manual]

ErrNil == [kind |-> "nil", Version |-> <<>>, Name |-> "", Err |-> ""]
Err(kind) == [kind |-> kind, Version |-> <<>>, Name |-> "", Err |-> ""]

ErrNoMigrations == Err("ErrNoMigrations")
ErrVersionConflict == Err("ErrVersionConflict")
ErrLockTimeout == Err("ErrLockTimeout")
ErrNoDriver == Err("ErrNoDriver")
ErrInvalidMigration == Err("ErrInvalidMigration")

\* an error a driver call returned: "DriverErr", or "CtxErr" for ctx.Err()
DriverError(cause) == Err(cause)

ErrChecksumMismatch == Err("ErrChecksumMismatch")

\* fmt.Errorf("%w: duplicate version %s", ErrVersionConflict, m.Version)
DuplicateVersionError(version) == [ErrVersionConflict EXCEPT !.Version = version]

\* fmt.Errorf("invalid migration %s: %w", m.Version, err)
InvalidMigrationError(version, err) == [err EXCEPT !.Version = version]

\* fmt.Errorf("%w: migration %s (expected %s, got %s)", ErrChecksumMismatch, ...)
ChecksumMismatchError(version, expected, got) ==
    [kind |-> "ErrChecksumMismatch", Version |-> version, Name |-> "",
     Err |-> "", Expected |-> expected, Got |-> got]

\* mutant: the cause returned as it is, not wrapped with the version and name
newMigrationErrorUnwrapped(version, name, cause) == Err(cause)

newMigrationError(version, name, cause) ==
    [kind |-> "MigrationError", Version |-> version, Name |-> name, Err |-> cause]

Validate(m) ==
    IF m.Version = <<>> THEN ErrInvalidMigration
    ELSE IF m.Name = "" THEN ErrInvalidMigration
    ELSE IF m.UpSQL = "" /\ ~m.UpFunc THEN ErrInvalidMigration
    ELSE ErrNil

noChecksumMarker == "no-checksum-go-func"

\* checksum.Calculate: the digest of the concatenation of its arguments
Calculate(x, y) == "sha256:" \o x \o y

Checksum(m) ==
    IF m.ManualChecksum # "" THEN m.ManualChecksum
    ELSE IF m.UpSQL # "" \/ m.DownSQL # "" THEN Calculate(m.UpSQL, m.DownSQL)
    ELSE noChecksumMarker

HasRollback(m) == m.DownSQL # "" \/ m.DownFunc

\* the down texts of the model are one of the keywords or hold none of them
DestructiveKeywords == {"DROP TABLE", "DROP DATABASE", "DROP SCHEMA", "TRUNCATE"}

IsDestructive(m) == m.DownSQL # "" /\ m.DownSQL \in DestructiveKeywords

(***************************************************************************)
(* sort.Slice on a short slice is an insertion sort with the given less.   *)
(* getPending sorts with pendingLess, getAppliedMigrations with            *)
(* appliedLess.                                                            *)
(***************************************************************************)
\* mutant: versions compared byte by byte
pendingLessBytewise(x, y) == StrLess(x.Version, y.Version)

pendingLess(x, y) == Compare(x.Version, y.Version) < 0

\* mutant: the applied list sorted ascending
appliedLessAscending(x, y) == Compare(x.Version, y.Version) < 0

appliedLess(x, y) == Compare(x.Version, y.Version) > 0

sliceLess(desc, x, y) == IF desc THEN appliedLess(x, y) ELSE pendingLess(x, y)

RECURSIVE insertionStep(_, _, _)
insertionStep(sorted, m, desc) ==
    IF sorted = <<>> THEN <<m>>
    ELSE IF sliceLess(desc, m, sorted[Len(sorted)])
         THEN Append(insertionStep(SubSeq(sorted, 1, Len(sorted) - 1), m, desc),
                     sorted[Len(sorted)])
         ELSE Append(sorted, m)

RECURSIVE sortSlice(_, _)
sortSlice(s, desc) ==
    IF s = <<>> THEN <<>>
    ELSE insertionStep(sortSlice(SubSeq(s, 1, Len(s) - 1), desc), s[Len(s)], desc)

RECURSIVE filterSeq(_, _, _)
filterSeq(s, cache, want) ==
    IF s = <<>> THEN <<>>
    ELSE IF (Head(s).Version \in DOMAIN cache) = want
         THEN <<Head(s)>> \o filterSeq(Tail(s), cache, want)
         ELSE filterSeq(Tail(s), cache, want)

\* getPending: registered migrations without a cache entry, ascending
getPending(migs, cache) == sortSlice(filterSeq(migs, cache, FALSE), FALSE)

\* getAppliedMigrations: registered migrations with a cache entry, descending
\* mutant: the applied list left in registration order
getAppliedMigrationsUnsorted(migs, cache) == filterSeq(migs, cache, TRUE)

getAppliedMigrations(migs, cache) == sortSlice(filterSeq(migs, cache, TRUE), TRUE)

(***************************************************************************)
(* Inputs: the versions, the migrations handed to Add, the step counts.    *)
(***************************************************************************)
V001 == <<"0", "0", "1">>
V2 == <<"2">>
V10 == <<"1", "0">>

VersionPool == {V001, V2, V10}

NameOf(v) == IF v = V001 THEN "m001" ELSE IF v = V2 THEN "m2" ELSE "m10"

\* SQL up and down; a Go up function with a manual checksum and no down
SqlMigration(v) == M(v, NameOf(v), "CREATE", FALSE, "DROP TABLE", FALSE, "")
FuncMigration(v) == M(v, NameOf(v), "", TRUE, "", FALSE, "v1")

ValidInputs == UNION {{SqlMigration(v), FuncMigration(v)} : v \in VersionPool}

InvalidInputs ==
    {M(<<>>, "m", "CREATE", FALSE, "", FALSE, ""),
     M(V001, "", "CREATE", FALSE, "", FALSE, ""),
     M(V001, "m001", "", FALSE, "DROP TABLE", FALSE, "")}

AddInputs == ValidInputs \cup InvalidInputs

NValues == (0 - 1) .. MaxN

\* the step count of the concurrent callers: Up applies all, Down takes one
NValuesConc == {0}

Procs == 1 .. NumProcs

\* the record an earlier run left in the tracking table for version v
InitRecord(v) == [Name |-> NameOf(v), Checksum |-> Calculate("CREATE", "DROP TABLE")]

(***************************************************************************)
(* State.                                                                  *)
(*   store, locked    the driver: its applied map and its lock             *)
(*   extHolds         a caller outside the orchestrators took the lock by  *)
(*                    calling Driver.Lock itself                           *)
(*   driver, migrations, config, applied   the fields of each Queen        *)
(*   frame            the running call of each Queen: position, arguments, *)
(*                    locals, the deferred Unlock, the context             *)
(*   obs              what an observer of each Queen's last call saw: the  *)
(*                    driver calls in order, the store at the call and at  *)
(*                    the reload, the value returned                       *)
(*   callerM          the Migration variable of each Queen's caller, when  *)
(*                    the caller is followed: its value, and the index of  *)
(*                    the registry entry that is the same memory cell (0:  *)
(*                    none)                                                *)
(***************************************************************************)
VARIABLES store, locked, extHolds,
          driver, migrations, config, applied, frame, obs, callerM,
          cmp, inst, callerCfg

vars == <<store, locked, extHolds,
          driver, migrations, config, applied, frame, obs, callerM,
          cmp, inst, callerCfg>>

\* what the specifications of one function, and of the caller's Config, add
lab == <<cmp, inst, callerCfg>>

IdleFrame ==
    [pc |-> "idle", op |-> "none", n |-> 0, work |-> <<>>,
     deferred |-> FALSE, ret |-> ErrNil, cancelled |-> FALSE]

\* the call has returned; its caller holds the returned value
DoneFrame == [IdleFrame EXCEPT !.pc = "done"]

\* no migration: the argument of the calls that take none
NoArg == M(<<>>, "", "", FALSE, "", FALSE, "")

NoObs ==
    [op |-> "none", n |-> 0, calls |-> <<>>, store0 |-> <<>>, snap |-> <<>>,
     extHeld |-> FALSE, prevUp |-> FALSE, prevFail |-> <<>>, timeout |-> 0,
     result |-> ErrNil,
     arg |-> NoArg, report |-> <<>>]

NoCaller == [value |-> NoArg, at |-> 0]

\* DefaultConfig(); LockTimeout is in minutes
DefaultConfig == [TableName |-> "queen_migrations", LockTimeout |-> 30, SkipLock |-> FALSE]

\* the default configuration with SkipLock set as given
Configured(skip) == [DefaultConfig EXCEPT !.SkipLock = skip]

\* no call of Compare is followed
NoCmp ==
    [pc |-> "none", a |-> <<>>, b |-> <<>>, c |-> <<>>,
     aa |-> 0, ab |-> 0, ba |-> 0, bc |-> 0, ac |-> 0]

\* no Migration value is followed outside the registries
NoInst == <<>>

\* the callers keep no Config: each Queen's configuration is its own
OwnConfig(cfgs) == [p \in Procs |-> [held |-> FALSE, built |-> cfgs[p]]]

LabIdle ==
    /\ cmp = NoCmp
    /\ inst = NoInst
    /\ callerCfg = OwnConfig(config)

InitDriver ==
    /\ \E S \in SUBSET VersionPool : store = [v \in S |-> InitRecord(v)]
    /\ locked = FALSE
    /\ extHolds = FALSE

\* one Queen at work; the others are constructed without a driver and unused
Init ==
    /\ InitDriver
    /\ driver \in [Procs -> BOOLEAN]
    /\ config \in [Procs -> {Configured(skip) : skip \in BOOLEAN}]
    /\ migrations = [p \in Procs |-> <<>>]
    /\ applied = [p \in Procs |-> <<>>]
    /\ frame = [p \in Procs |-> IdleFrame]
    /\ obs = [p \in Procs |-> NoObs]
    /\ callerM = [p \in Procs |-> NoCaller]
    /\ LabIdle
    /\ \A p \in Procs \ {1} : ~driver[p] /\ ~config[p].SkipLock

(***************************************************************************)
(* What a driver call can return.  The SQL drivers pass ctx to the         *)
(* database and fail with ctx.Err() once it is cancelled; the mock driver  *)
(* ignores ctx.  Any call on a database can fail with an error of its own. *)
(***************************************************************************)
CtxOutcomes(p) ==
    IF frame[p].cancelled THEN {"ok", "DriverErr", "CtxErr"} ELSE {"ok", "DriverErr"}

\* Exec runs the action in a transaction: the action's own error is returned
ExecOutcomes(p) == CtxOutcomes(p) \cup {"ActionErr"}

\* Unlock is called with context.Background()
UnlockOutcomes == {"ok", "DriverErr"}

\* the observer follows the calls of the Queens in Watched only
Watched == {1}

Seen(p, o) == IF p \in Watched THEN o ELSE NoObs

\* the context a call is given: the caller's, or context.Background()
CallerCtx == "ctx"
BackgroundCtx == "background"

Logged(p, call, v, out, ctx) ==
    [obs[p] EXCEPT !.calls = Append(@, [call |-> call, v |-> v, out |-> out, ctx |-> ctx])]

IsDown(p) == frame[p].op \in {"Down", "Reset"}

\* mutant: the Unlock deferred before the result of Lock is looked at
ConcludeUnlocksUnheld(p, err, o) ==
    /\ frame' = [frame EXCEPT ![p] = [@ EXCEPT !.pc = "unlock", !.ret = err,
                                               !.work = <<>>]]
    /\ obs' = [obs EXCEPT ![p] = Seen(p, o)]

\* mutant: Unlock called on the success path only
ConcludeSkipsUnlockOnError(p, err, o) ==
    IF frame[p].deferred /\ err = ErrNil
    THEN /\ frame' = [frame EXCEPT ![p] = [@ EXCEPT !.pc = "unlock", !.ret = err,
                                                    !.work = <<>>]]
         /\ obs' = [obs EXCEPT ![p] = Seen(p, o)]
    ELSE /\ frame' = [frame EXCEPT ![p] = DoneFrame]
         /\ obs' = [obs EXCEPT ![p] = Seen(p, [o EXCEPT !.result = err])]

\* return err to the caller, through the deferred Unlock when one is pending
Conclude(p, err, o) ==
    IF frame[p].deferred
    THEN /\ frame' = [frame EXCEPT ![p] = [@ EXCEPT !.pc = "unlock", !.ret = err,
                                                    !.work = <<>>]]
         /\ obs' = [obs EXCEPT ![p] = Seen(p, o)]
    ELSE /\ frame' = [frame EXCEPT ![p] = DoneFrame]
         /\ obs' = [obs EXCEPT ![p] = Seen(p, [o EXCEPT !.result = err])]

\* mutant: the loop of Down and Reset without the HasRollback check
ProceedWithoutRollbackCheck(p, w, o) ==
    IF w = <<>> THEN Conclude(p, ErrNil, o)
    ELSE /\ frame' = [frame EXCEPT ![p] = [@ EXCEPT !.pc = "exec", !.work = w]]
         /\ obs' = [obs EXCEPT ![p] = Seen(p, o)]

\* the head of the loop over the work set w
Proceed(p, w, o) ==
    IF w = <<>> THEN Conclude(p, ErrNil, o)
    ELSE IF IsDown(p) /\ ~HasRollback(Head(w))
    THEN Conclude(p, newMigrationError(Head(w).Version, Head(w).Name,
                                       "no down migration defined"), o)
    ELSE /\ frame' = [frame EXCEPT ![p] = [@ EXCEPT !.pc = "exec", !.work = w]]
         /\ obs' = [obs EXCEPT ![p] = Seen(p, o)]

\* was the last completed call of p an Up from an empty store in which nothing failed
WasCleanUp(p) ==
    /\ obs[p].op = "UpSteps" /\ obs[p].n = 0
    /\ obs[p].result = ErrNil
    /\ obs[p].store0 = <<>>
    /\ \A i \in 1 .. Len(obs[p].calls) : obs[p].calls[i].out = "ok"

\* the Record or Remove that failed in the call of p that has returned, as
\* <<call, version>>, or <<>>
FailedUpdate(p) ==
    LET F == {i \in 1 .. Len(obs[p].calls) :
                 /\ obs[p].calls[i].call \in {"Record", "Remove"}
                 /\ obs[p].calls[i].out # "ok"}
    IN  IF F = {} THEN <<>>
        ELSE LET c == obs[p].calls[CHOOSE i \in F : TRUE] IN <<c.call, c.v>>

StartObs(p, o, k) ==
    [op |-> o, n |-> k, calls |-> <<>>, store0 |-> store, snap |-> <<>>,
     extHeld |-> extHolds, prevUp |-> obs[p].prevUp, prevFail |-> obs[p].prevFail,
     timeout |-> 0,
     result |-> ErrNil,
     arg |-> NoArg, report |-> <<>>]

\* n: the step count as passed; k: the value the call works with
Enter(p, o, n, k) ==
    /\ frame' = [frame EXCEPT ![p] = [IdleFrame EXCEPT !.pc = "init", !.op = o,
                                                       !.n = k]]
    /\ obs' = [obs EXCEPT ![p] = Seen(p, StartObs(p, o, n))]

Fail(p, o, k, err) ==
    /\ frame' = [frame EXCEPT ![p] = DoneFrame]
    /\ obs' = [obs EXCEPT ![p] = Seen(p, [StartObs(p, o, k) EXCEPT !.result = err])]

(***************************************************************************)
(* Queen.Add                                                               *)
(***************************************************************************)
VersionRegistered(migs, v) == \E i \in 1 .. Len(migs) : migs[i].Version = v

AddResult(migs, m) ==
    IF Validate(m) # ErrNil THEN Validate(m)
    ELSE IF VersionRegistered(migs, m.Version) THEN ErrVersionConflict
    ELSE ErrNil

\* mutant: the migration appended before the checks
AddRegistryAppendsFirst(migs, m) == Append(migs, m)

AddRegistry(migs, m) ==
    IF AddResult(migs, m) = ErrNil THEN Append(migs, m) ELSE migs

Add(p, m) ==
    /\ frame[p].pc = "idle"
    /\ Len(AddRegistry(migrations[p], m)) <= MaxReg
    /\ migrations' = [migrations EXCEPT ![p] = AddRegistry(@, m)]
    /\ frame' = [frame EXCEPT ![p] = DoneFrame]
    /\ obs' = [obs EXCEPT ![p] =
          Seen(p, [StartObs(p, "Add", 0) EXCEPT !.result = AddResult(migrations[p], m),
                                                !.arg = m])]
    /\ UNCHANGED <<lab, store, locked, extHolds, driver, config, applied>>

(***************************************************************************)
(* Queen.UpSteps, Queen.Down, Queen.Reset up to their first driver call.   *)
(* Up(ctx) is UpSteps(ctx, 0).                                             *)
(***************************************************************************)
\* mutant: UpSteps without the check of the registry
UpStepsAnyRegistry(p, n) ==
    /\ frame[p].pc = "idle"
    /\ IF ~driver[p] THEN Fail(p, "UpSteps", n, ErrNoDriver)
       ELSE Enter(p, "UpSteps", n, n)
    /\ UNCHANGED <<lab, callerM, store, locked, extHolds, driver, migrations, config, applied>>

UpSteps(p, n) ==
    /\ frame[p].pc = "idle"
    /\ IF ~driver[p] THEN Fail(p, "UpSteps", n, ErrNoDriver)
       ELSE IF Len(migrations[p]) = 0 THEN Fail(p, "UpSteps", n, ErrNoMigrations)
       ELSE Enter(p, "UpSteps", n, n)
    /\ UNCHANGED <<lab, callerM, store, locked, extHolds, driver, migrations, config, applied>>

Down(p, n) ==
    /\ frame[p].pc = "idle"
    /\ LET k == IF n <= 0 THEN 1 ELSE n
       IN  IF ~driver[p] THEN Fail(p, "Down", n, ErrNoDriver)
           ELSE Enter(p, "Down", n, k)
    /\ UNCHANGED <<lab, callerM, store, locked, extHolds, driver, migrations, config, applied>>

Reset(p) ==
    /\ frame[p].pc = "idle"
    /\ IF ~driver[p] THEN Fail(p, "Reset", 0, ErrNoDriver)
       ELSE Enter(p, "Reset", 0, 0)
    /\ UNCHANGED <<lab, callerM, store, locked, extHolds, driver, migrations, config, applied>>

(***************************************************************************)
(* Queen.Status, Queen.Validate and Queen.Close.  Status and Validate call *)
(* Init and reload the cache without taking the lock.                      *)
(***************************************************************************)
ReadOps == {"Status", "Validate"}

StatusPending == "pending"
StatusApplied == "applied"
StatusModified == "modified"

\* mutant: the no-checksum marker compared like any checksum
checksumDiffersAlways(m, rec) == rec.Checksum # Checksum(m)

\* the test of Status and Validate on a migration that has a record
checksumDiffers(m, rec) == rec.Checksum # Checksum(m) /\ Checksum(m) # noChecksumMarker

\* one MigrationStatus; AppliedAt says whether the pointer is set
statusOf(m, cache) ==
    [Version |-> m.Version, Name |-> m.Name, Checksum |-> Checksum(m),
     HasRollback |-> HasRollback(m), Destructive |-> IsDestructive(m),
     Status |-> IF m.Version \notin DOMAIN cache THEN StatusPending
                ELSE IF checksumDiffers(m, cache[m.Version]) THEN StatusModified
                ELSE StatusApplied,
     AppliedAt |-> m.Version \in DOMAIN cache]

\* mutant: the report in applied-first order
statusesAppliedFirst(migs, cache) ==
    [i \in 1 .. Len(migs) |->
        statusOf((getAppliedMigrations(migs, cache) \o getPending(migs, cache))[i], cache)]

statuses(migs, cache) == [i \in 1 .. Len(migs) |-> statusOf(migs[i], cache)]

Status(p) ==
    /\ frame[p].pc = "idle"
    /\ IF ~driver[p] THEN Fail(p, "Status", 0, ErrNoDriver)
       ELSE Enter(p, "Status", 0, 0)
    /\ UNCHANGED <<lab, callerM, store, locked, extHolds, driver, migrations, config, applied>>

\* the first loop of Validate: duplicates and malformed migrations
RECURSIVE registryCheck(_, _, _)
registryCheck(migs, i, seen) ==
    IF i > Len(migs) THEN ErrNil
    ELSE IF migs[i].Version \in seen THEN DuplicateVersionError(migs[i].Version)
    ELSE IF Validate(migs[i]) # ErrNil
         THEN InvalidMigrationError(migs[i].Version, Validate(migs[i]))
    ELSE registryCheck(migs, i + 1, seen \cup {migs[i].Version})

\* mutant: the loop goes on after a mismatch and reports the last one
RECURSIVE checksumCheckLast(_, _, _)
checksumCheckLast(migs, i, cache) ==
    IF i > Len(migs) THEN ErrNil
    ELSE LET rest == checksumCheckLast(migs, i + 1, cache)
         IN  IF rest # ErrNil THEN rest
             ELSE IF /\ migs[i].Version \in DOMAIN cache
                     /\ checksumDiffers(migs[i], cache[migs[i].Version])
                  THEN ChecksumMismatchError(migs[i].Version,
                                             cache[migs[i].Version].Checksum,
                                             Checksum(migs[i]))
                  ELSE ErrNil

\* the second loop of Validate: the first registered migration whose record differs
RECURSIVE checksumCheck(_, _, _)
checksumCheck(migs, i, cache) ==
    IF i > Len(migs) THEN ErrNil
    ELSE IF /\ migs[i].Version \in DOMAIN cache
            /\ checksumDiffers(migs[i], cache[migs[i].Version])
         THEN ChecksumMismatchError(migs[i].Version, cache[migs[i].Version].Checksum,
                                    Checksum(migs[i]))
    ELSE checksumCheck(migs, i + 1, cache)

\* mutant: Validate asks for a driver first, as the other calls do
QueenValidateNeedsDriver(p) ==
    /\ frame[p].pc = "idle"
    /\ IF ~driver[p] THEN Fail(p, "Validate", 0, ErrNoDriver)
       ELSE IF Len(migrations[p]) = 0 THEN Fail(p, "Validate", 0, ErrNoMigrations)
       ELSE IF registryCheck(migrations[p], 1, {}) # ErrNil
            THEN Fail(p, "Validate", 0, registryCheck(migrations[p], 1, {}))
       ELSE Enter(p, "Validate", 0, 0)
    /\ UNCHANGED <<lab, callerM, store, locked, extHolds, driver, migrations, config, applied>>

QueenValidate(p) ==
    /\ frame[p].pc = "idle"
    /\ IF Len(migrations[p]) = 0 THEN Fail(p, "Validate", 0, ErrNoMigrations)
       ELSE IF registryCheck(migrations[p], 1, {}) # ErrNil
            THEN Fail(p, "Validate", 0, registryCheck(migrations[p], 1, {}))
       ELSE IF ~driver[p] THEN Fail(p, "Validate", 0, ErrNil)
       ELSE Enter(p, "Validate", 0, 0)
    /\ UNCHANGED <<lab, callerM, store, locked, extHolds, driver, migrations, config, applied>>

\* Driver.Close returns nil or the error of closing the connection
CloseOutcomes == {"ok", "DriverErr"}

Close(p) ==
    /\ frame[p].pc = "idle"
    /\ IF ~driver[p] THEN Fail(p, "Close", 0, ErrNil)
       ELSE \E out \in CloseOutcomes :
               /\ frame' = [frame EXCEPT ![p] = DoneFrame]
               /\ obs' = [obs EXCEPT ![p] =
                     Seen(p, [StartObs(p, "Close", 0) EXCEPT
                                 !.calls = <<[call |-> "Close", v |-> <<>>, out |-> out,
                                              ctx |-> "none"]>>,
                                 !.result = IF out = "ok" THEN ErrNil
                                            ELSE DriverError(out)])]
    /\ UNCHANGED <<lab, callerM, store, locked, extHolds, driver, migrations, config, applied>>

(***************************************************************************)
(* The driver calls of UpSteps / Down / Reset, one step each.              *)
(***************************************************************************)
\* mutant: Status and Validate take the lock as the other calls do
DriverInitLocksReads(p) ==
    /\ frame[p].pc = "init"
    /\ \E out \in CtxOutcomes(p) :
          LET o == Logged(p, "Init", <<>>, out, CallerCtx)
          IN  IF out # "ok" THEN Conclude(p, DriverError(out), o)
              ELSE /\ frame' = [frame EXCEPT ![p] =
                         [@ EXCEPT !.pc = IF config[p].SkipLock THEN "load" ELSE "lock"]]
                   /\ obs' = [obs EXCEPT ![p] = Seen(p, o)]
    /\ UNCHANGED <<lab, callerM, store, locked, extHolds, driver, migrations, config, applied>>

\* mutant: the lock taken whatever SkipLock says
DriverInitIgnoresSkipLock(p) ==
    /\ frame[p].pc = "init"
    /\ \E out \in CtxOutcomes(p) :
          LET o == Logged(p, "Init", <<>>, out, CallerCtx)
          IN  IF out # "ok" THEN Conclude(p, DriverError(out), o)
              ELSE /\ frame' = [frame EXCEPT ![p] =
                         [@ EXCEPT !.pc = IF frame[p].op \in ReadOps
                                          THEN "load" ELSE "lock"]]
                   /\ obs' = [obs EXCEPT ![p] = Seen(p, o)]
    /\ UNCHANGED <<lab, callerM, store, locked, extHolds, driver, migrations, config, applied>>

\* q.driver.Init(ctx)
DriverInit(p) ==
    /\ frame[p].pc = "init"
    /\ \E out \in CtxOutcomes(p) :
          LET o == Logged(p, "Init", <<>>, out, CallerCtx)
          IN  IF out # "ok" THEN Conclude(p, DriverError(out), o)
              ELSE /\ frame' = [frame EXCEPT ![p] =
                         [@ EXCEPT !.pc = IF config[p].SkipLock \/ frame[p].op \in ReadOps
                                          THEN "load" ELSE "lock"]]
                   /\ obs' = [obs EXCEPT ![p] = Seen(p, o)]
    /\ UNCHANGED <<lab, callerM, store, locked, extHolds, driver, migrations, config, applied>>

\* mutant: Lock takes the lock without looking whether it is held
LockResultIgnoresHolder(out, isLocked) ==
    IF out # "ok" THEN DriverError(out) ELSE ErrNil

\* Driver.Lock: the driver's own error, else ErrLockTimeout when the lock is
\* taken, else the lock
LockResult(out, isLocked) ==
    IF out # "ok" THEN DriverError(out)
    ELSE IF isLocked THEN ErrLockTimeout
    ELSE ErrNil

\* q.driver.Lock(ctx, q.config.LockTimeout) and the defer of Unlock
DriverLock(p) ==
    /\ frame[p].pc = "lock"
    /\ \E out \in CtxOutcomes(p) :
          LET res == LockResult(out, locked)
              o == [Logged(p, "Lock", <<>>,
                           IF res = ErrNil THEN "ok" ELSE res.kind, CallerCtx)
                      EXCEPT !.timeout = config[p].LockTimeout]
          IN  IF res # ErrNil
              THEN /\ Conclude(p, res, o)
                   /\ UNCHANGED locked
              ELSE /\ locked' = TRUE
                   /\ frame' = [frame EXCEPT ![p] =
                         [@ EXCEPT !.pc = "load", !.deferred = TRUE]]
                   /\ obs' = [obs EXCEPT ![p] = Seen(p, o)]
    /\ UNCHANGED <<lab, callerM, store, extHolds, driver, migrations, config, applied>>

\* mutant: Reset rolls back as Down(ctx, 0) does, one migration
WorkSetResetTakesOne(p, cache) ==
    IF frame[p].op = "UpSteps"
    THEN LET pending == getPending(migrations[p], cache)
         IN  IF frame[p].n > 0 /\ frame[p].n < Len(pending)
             THEN SubSeq(pending, 1, frame[p].n)
             ELSE pending
    ELSE LET app == getAppliedMigrations(migrations[p], cache)
         IN  IF frame[p].op = "Down"
             THEN SubSeq(app, 1, IF frame[p].n > Len(app) THEN Len(app) ELSE frame[p].n)
             ELSE SubSeq(app, 1, IF Len(app) > 1 THEN 1 ELSE Len(app))

\* the work set of the running call, computed from the reloaded cache
WorkSet(p, cache) ==
    IF frame[p].op = "UpSteps"
    THEN LET pending == getPending(migrations[p], cache)
         IN  IF frame[p].n > 0 /\ frame[p].n < Len(pending)
             THEN SubSeq(pending, 1, frame[p].n)
             ELSE pending
    ELSE LET app == getAppliedMigrations(migrations[p], cache)
         IN  IF frame[p].op = "Down"
             THEN SubSeq(app, 1, IF frame[p].n > Len(app) THEN Len(app) ELSE frame[p].n)
             ELSE app

\* mutant: the result of GetApplied merged into the cache
ReloadedMerged(cache, result) ==
    [v \in DOMAIN cache \cup DOMAIN result |->
        IF v \in DOMAIN result THEN result[v] ELSE cache[v]]

\* q.applied = make(map[string]*Applied) and the loop that fills it
Reloaded(cache, result) == result

\* mutant: UpSteps, Down and Reset refuse to work when a stored checksum
\* differs, as Validate does
loadAppliedValidates(p) ==
    /\ frame[p].pc = "load"
    /\ \E out \in CtxOutcomes(p) :
          LET o == Logged(p, "GetApplied", <<>>, out, CallerCtx)
          IN  IF out # "ok"
              THEN /\ Conclude(p, DriverError(out), o)
                   /\ UNCHANGED applied
              ELSE LET cache == Reloaded(applied[p], store)
                   IN  /\ applied' = [applied EXCEPT ![p] = cache]
                       /\ IF frame[p].op = "Status"
                          THEN Conclude(p, ErrNil,
                                        [o EXCEPT !.snap = store,
                                                  !.report = statuses(migrations[p], cache)])
                          ELSE IF frame[p].op = "Validate"
                                  \/ checksumCheck(migrations[p], 1, cache) # ErrNil
                          THEN Conclude(p, checksumCheck(migrations[p], 1, cache),
                                        [o EXCEPT !.snap = store])
                          ELSE Proceed(p, WorkSet(p, cache), [o EXCEPT !.snap = store])
    /\ UNCHANGED <<lab, callerM, store, locked, extHolds, driver, migrations, config>>

\* q.loadApplied(ctx), then getPending / getAppliedMigrations and the cut to n
loadApplied(p) ==
    /\ frame[p].pc = "load"
    /\ \E out \in CtxOutcomes(p) :
          LET o == Logged(p, "GetApplied", <<>>, out, CallerCtx)
          IN  IF out # "ok"
              THEN /\ Conclude(p, DriverError(out), o)
                   /\ UNCHANGED applied
              ELSE LET cache == Reloaded(applied[p], store)
                   IN  /\ applied' = [applied EXCEPT ![p] = cache]
                       /\ IF frame[p].op = "Status"
                          THEN Conclude(p, ErrNil,
                                        [o EXCEPT !.snap = store,
                                                  !.report = statuses(migrations[p], cache)])
                          ELSE IF frame[p].op = "Validate"
                          THEN Conclude(p, checksumCheck(migrations[p], 1, cache),
                                        [o EXCEPT !.snap = store])
                          ELSE Proceed(p, WorkSet(p, cache), [o EXCEPT !.snap = store])
    /\ UNCHANGED <<lab, callerM, store, locked, extHolds, driver, migrations, config>>

\* Migration.executeUp / executeDown under Driver.Exec: the error returned
executeUp(m, out) ==
    IF m.UpFunc THEN out ELSE IF m.UpSQL # "" THEN out ELSE "ErrInvalidMigration"

executeDown(m, out) ==
    IF m.DownFunc THEN out ELSE IF m.DownSQL # "" THEN out ELSE "ErrInvalidMigration"

\* mutant: applyMigration goes on to Record when Exec has failed
DriverExecRecordsAnyway(p) ==
    /\ frame[p].pc = "exec"
    /\ \E out \in ExecOutcomes(p) :
          LET m == Head(frame[p].work)
              res == IF IsDown(p) THEN executeDown(m, out) ELSE executeUp(m, out)
              o == Logged(p, "Exec", m.Version, res, CallerCtx)
          IN  /\ frame' = [frame EXCEPT ![p] =
                     [@ EXCEPT !.pc = IF IsDown(p) THEN "remove" ELSE "record"]]
              /\ obs' = [obs EXCEPT ![p] = Seen(p, o)]
    /\ UNCHANGED <<lab, callerM, store, locked, extHolds, driver, migrations, config, applied>>

\* mutant: the Exec of the next migration started before the Record (or
\* Remove) of the one just executed
DriverExecPipelined(p) ==
    /\ frame[p].pc = "exec"
    /\ \E out \in ExecOutcomes(p) :
          LET m == Head(frame[p].work)
              res == IF IsDown(p) THEN executeDown(m, out) ELSE executeUp(m, out)
              o == Logged(p, "Exec", m.Version, res, CallerCtx)
          IN  IF res # "ok"
              THEN Conclude(p, newMigrationError(m.Version, m.Name, res), o)
              ELSE IF Len(frame[p].work) > 1
              THEN /\ frame' = [frame EXCEPT ![p] = [@ EXCEPT !.work = Tail(@)]]
                   /\ obs' = [obs EXCEPT ![p] = Seen(p, o)]
              ELSE /\ frame' = [frame EXCEPT ![p] =
                         [@ EXCEPT !.pc = IF IsDown(p) THEN "remove" ELSE "record"]]
                   /\ obs' = [obs EXCEPT ![p] = Seen(p, o)]
    /\ UNCHANGED <<lab, callerM, store, locked, extHolds, driver, migrations, config, applied>>

\* q.driver.Exec of applyMigration / rollbackMigration
DriverExec(p) ==
    /\ frame[p].pc = "exec"
    /\ \E out \in ExecOutcomes(p) :
          LET m == Head(frame[p].work)
              res == IF IsDown(p) THEN executeDown(m, out) ELSE executeUp(m, out)
              o == Logged(p, "Exec", m.Version, res, CallerCtx)
          IN  IF res # "ok"
              THEN Conclude(p, newMigrationError(m.Version, m.Name, res), o)
              ELSE /\ frame' = [frame EXCEPT ![p] =
                         [@ EXCEPT !.pc = IF IsDown(p) THEN "remove" ELSE "record"]]
                   /\ obs' = [obs EXCEPT ![p] = Seen(p, o)]
    /\ UNCHANGED <<lab, callerM, store, locked, extHolds, driver, migrations, config, applied>>

\* mutant: the stored checksum covers the up text only
RecordRowUpOnly(m) == [Name |-> m.Name, Checksum |-> Calculate(m.UpSQL, "")]

\* Driver.Record: the row written for m
RecordRow(m) == [Name |-> m.Name, Checksum |-> Checksum(m)]

Put(f, v, row) == [x \in DOMAIN f \cup {v} |-> IF x = v THEN row ELSE f[x]]

\* mutant: Remove leaves the row in place
DeleteKeepsRow(f, v) == f

Delete(f, v) == [x \in DOMAIN f \ {v} |-> f[x]]

\* mutant: the row is written although Record returns an error
DriverRecordWritesOnError(p) ==
    /\ frame[p].pc = "record"
    /\ \E out \in CtxOutcomes(p) :
          LET m == Head(frame[p].work)
              o == Logged(p, "Record", m.Version, out, CallerCtx)
          IN  IF out # "ok"
              THEN /\ Conclude(p, newMigrationError(m.Version, m.Name, out), o)
                   /\ store' = Put(store, m.Version, RecordRow(m))
                   /\ UNCHANGED applied
              ELSE /\ store' = Put(store, m.Version, RecordRow(m))
                   /\ applied' = [applied EXCEPT ![p] = Put(@, m.Version, RecordRow(m))]
                   /\ Proceed(p, Tail(frame[p].work), o)
    /\ UNCHANGED <<lab, callerM, locked, extHolds, driver, migrations, config>>

\* q.driver.Record of applyMigration, the cache update, the next loop head
DriverRecord(p) ==
    /\ frame[p].pc = "record"
    /\ \E out \in CtxOutcomes(p) :
          LET m == Head(frame[p].work)
              o == Logged(p, "Record", m.Version, out, CallerCtx)
          IN  IF out # "ok"
              THEN /\ Conclude(p, newMigrationError(m.Version, m.Name, out), o)
                   /\ UNCHANGED <<store, applied>>
              ELSE /\ store' = Put(store, m.Version, RecordRow(m))
                   /\ applied' = [applied EXCEPT ![p] = Put(@, m.Version, RecordRow(m))]
                   /\ Proceed(p, Tail(frame[p].work), o)
    /\ UNCHANGED <<lab, callerM, locked, extHolds, driver, migrations, config>>

\* mutant: rollbackMigration without the delete from the cache
DriverRemoveKeepsCache(p) ==
    /\ frame[p].pc = "remove"
    /\ \E out \in CtxOutcomes(p) :
          LET m == Head(frame[p].work)
              o == Logged(p, "Remove", m.Version, out, CallerCtx)
          IN  IF out # "ok"
              THEN /\ Conclude(p, newMigrationError(m.Version, m.Name, out), o)
                   /\ UNCHANGED <<store, applied>>
              ELSE /\ store' = Delete(store, m.Version)
                   /\ UNCHANGED applied
                   /\ Proceed(p, Tail(frame[p].work), o)
    /\ UNCHANGED <<lab, callerM, locked, extHolds, driver, migrations, config>>

\* q.driver.Remove of rollbackMigration, the cache update, the next loop head
DriverRemove(p) ==
    /\ frame[p].pc = "remove"
    /\ \E out \in CtxOutcomes(p) :
          LET m == Head(frame[p].work)
              o == Logged(p, "Remove", m.Version, out, CallerCtx)
          IN  IF out # "ok"
              THEN /\ Conclude(p, newMigrationError(m.Version, m.Name, out), o)
                   /\ UNCHANGED <<store, applied>>
              ELSE /\ store' = Delete(store, m.Version)
                   /\ applied' = [applied EXCEPT ![p] = Delete(@, m.Version)]
                   /\ Proceed(p, Tail(frame[p].work), o)
    /\ UNCHANGED <<lab, callerM, locked, extHolds, driver, migrations, config>>

\* the lock after Driver.Unlock returned out
Unlocked(out) == IF out = "ok" THEN FALSE ELSE locked

\* mutant: the error of Unlock returned when the operation itself succeeded
DriverUnlockEscalates(p) ==
    /\ frame[p].pc = "unlock"
    /\ \E out \in UnlockOutcomes :
          /\ locked' = Unlocked(out)
          /\ frame' = [frame EXCEPT ![p] = DoneFrame]
          /\ obs' = [obs EXCEPT ![p] =
                Seen(p, [Logged(p, "Unlock", <<>>, out, BackgroundCtx) EXCEPT
                            !.result = IF frame[p].ret = ErrNil /\ out # "ok"
                                       THEN DriverError(out) ELSE frame[p].ret])]
    /\ UNCHANGED <<lab, callerM, store, extHolds, driver, migrations, config, applied>>

\* the deferred q.driver.Unlock(context.Background()); its error is dropped
DriverUnlock(p) ==
    /\ frame[p].pc = "unlock"
    /\ \E out \in UnlockOutcomes :
          /\ locked' = Unlocked(out)
          /\ frame' = [frame EXCEPT ![p] = DoneFrame]
          /\ obs' = [obs EXCEPT ![p] =
                Seen(p, [Logged(p, "Unlock", <<>>, out, BackgroundCtx) EXCEPT
                            !.result = frame[p].ret])]
    /\ UNCHANGED <<lab, callerM, store, extHolds, driver, migrations, config, applied>>

\* the caller has taken the returned value and may call again
Returned(p) ==
    /\ frame[p].pc = "done"
    /\ frame' = [frame EXCEPT ![p] = IdleFrame]
    /\ obs' = [obs EXCEPT ![p] = Seen(p, [NoObs EXCEPT !.prevUp = WasCleanUp(p)])]
    /\ UNCHANGED <<lab, callerM, store, locked, extHolds, driver, migrations, config, applied>>

\* Returned, with an observer that keeps which Record or Remove failed in the
\* call that has returned
ReturnedFollowed(p) ==
    /\ frame[p].pc = "done"
    /\ frame' = [frame EXCEPT ![p] = IdleFrame]
    /\ obs' = [obs EXCEPT ![p] = Seen(p, [NoObs EXCEPT !.prevUp = WasCleanUp(p),
                                                       !.prevFail = FailedUpdate(p)])]
    /\ UNCHANGED <<lab, callerM, store, locked, extHolds, driver, migrations, config, applied>>

\* the caller's context is cancelled while the call runs
Cancel(p) ==
    /\ frame[p].pc \notin {"idle", "done"}
    /\ ~frame[p].cancelled
    /\ frame' = [frame EXCEPT ![p] = [@ EXCEPT !.cancelled = TRUE]]
    /\ UNCHANGED <<lab, callerM, store, locked, extHolds, driver, migrations, config,
                   applied, obs>>

(***************************************************************************)
(* A caller outside the orchestrators takes the driver's lock with         *)
(* Driver.Lock and gives it back with Driver.Unlock.                       *)
(***************************************************************************)
ExtLock ==
    /\ ~locked
    /\ locked' = TRUE
    /\ extHolds' = TRUE
    /\ UNCHANGED <<lab, callerM, store, driver, migrations, config, applied, frame, obs>>

ExtUnlock ==
    /\ extHolds
    /\ locked' = FALSE
    /\ extHolds' = FALSE
    /\ obs' = [p \in Procs |-> [obs[p] EXCEPT !.extHeld = FALSE]]
    /\ UNCHANGED <<lab, callerM, store, driver, migrations, config, applied, frame>>

(***************************************************************************)
(* Spec: one Queen, its caller, and the outside holder of the lock.        *)
(***************************************************************************)
Step(p) ==
    \/ \E m \in AddInputs : Add(p, m) /\ UNCHANGED callerM
    \/ \E n \in NValues : UpSteps(p, n)
    \/ \E n \in NValues : Down(p, n)
    \/ Reset(p)
    \/ Status(p)
    \/ QueenValidate(p)
    \/ Close(p)
    \/ DriverInit(p)
    \/ DriverLock(p)
    \/ loadApplied(p)
    \/ DriverExec(p)
    \/ DriverRecord(p)
    \/ DriverRemove(p)
    \/ DriverUnlock(p)
    \/ Returned(p)
    \/ Cancel(p)

Next == Step(1) \/ ExtLock \/ ExtUnlock

Spec == Init /\ [][Next]_vars

(***************************************************************************)
(* SpecOwn: Spec on a tracking table that starts empty, so that every      *)
(* record in it was written by this Queen from its own registry.           *)
(***************************************************************************)
InitOwn == Init /\ store = <<>>

SpecOwn == InitOwn /\ [][Next]_vars

(***************************************************************************)
(* SpecConc: NumProcs Queens with locking enabled, one per process, on one *)
(* driver store.  Each holds the same two migrations; the callers run Up,  *)
(* Down of one step and Reset.                                             *)
(***************************************************************************)
ConcRegistry == <<SqlMigration(V10), SqlMigration(V2)>>

InitConc ==
    /\ store = <<>>
    /\ locked = FALSE
    /\ extHolds = FALSE
    /\ driver = [p \in Procs |-> TRUE]
    /\ config = [p \in Procs |-> Configured(FALSE)]
    /\ migrations = [p \in Procs |-> ConcRegistry]
    /\ applied = [p \in Procs |-> <<>>]
    /\ frame = [p \in Procs |-> IdleFrame]
    /\ obs = [p \in Procs |-> NoObs]
    /\ callerM = [p \in Procs |-> NoCaller]
    /\ LabIdle

StepConc(p) ==
    \/ \E n \in NValuesConc : UpSteps(p, n)
    \/ \E n \in NValuesConc : Down(p, n)
    \/ Reset(p)
    \/ DriverInit(p)
    \/ DriverLock(p)
    \/ loadApplied(p)
    \/ DriverExec(p)
    \/ DriverRecord(p)
    \/ DriverRemove(p)
    \/ DriverUnlock(p)
    \/ Returned(p)

NextConc == \E p \in Procs : StepConc(p)

SpecConc == InitConc /\ [][NextConc]_vars

(***************************************************************************)
(* SpecRead: one Queen and the reporting calls.  The registry is drawn     *)
(* from SQL, Go-function and mixed migrations, with and without a manual   *)
(* checksum; the records an earlier run left hold the checksum of the SQL  *)
(* migration or the checksum of a text that was edited since.              *)
(***************************************************************************)
\* Go functions up and down, no SQL text, no manual checksum
GoMigration(v) == M(v, NameOf(v), "", TRUE, "", TRUE, "")

\* SQL up, Go function down, no manual checksum
MixedMigration(v) == M(v, NameOf(v), "CREATE", FALSE, "", TRUE, "")

ReadInputs ==
    UNION {{SqlMigration(v), FuncMigration(v), GoMigration(v), MixedMigration(v)} :
              v \in VersionPool}

StoredChecksums == {Calculate("CREATE", "DROP TABLE"), Calculate("CREATE v0", "")}

InitRead ==
    /\ \E S \in SUBSET VersionPool :
          store \in [S -> {[Name |-> "m", Checksum |-> c] : c \in StoredChecksums}]
    /\ locked = FALSE
    /\ extHolds = FALSE
    /\ driver \in [Procs -> BOOLEAN]
    /\ config = [p \in Procs |-> Configured(FALSE)]
    /\ migrations = [p \in Procs |-> <<>>]
    /\ applied = [p \in Procs |-> <<>>]
    /\ frame = [p \in Procs |-> IdleFrame]
    /\ obs = [p \in Procs |-> NoObs]
    /\ callerM = [p \in Procs |-> NoCaller]
    /\ LabIdle
    /\ \A p \in Procs \ {1} : ~driver[p]

StepRead(p) ==
    \/ \E m \in ReadInputs : Add(p, m) /\ UNCHANGED callerM
    \/ Status(p)
    \/ QueenValidate(p)
    \/ Close(p)
    \/ DriverInit(p)
    \/ loadApplied(p)
    \/ Returned(p)

NextRead == StepRead(1) \/ ExtLock \/ ExtUnlock

SpecRead == InitRead /\ [][NextRead]_vars

(***************************************************************************)
(* SpecCopy: one Queen and a caller that keeps the Migration variable it   *)
(* passed to Add and writes to its fields afterwards.  Add takes M by      *)
(* value and stores the address of a local copy, so the registry entry is  *)
(* a cell of its own.                                                      *)
(***************************************************************************)
\* mutant: Add stores the address of the caller's variable
copyCellOfCaller(i) == i

\* migration := m; append(q.migrations, &migration): the cell the new entry
\* shares with the caller's variable (0: none, it is a fresh copy)
copyCell(i) == 0

\* the caller passes its variable to Add
AddHeld(p, m) ==
    /\ Add(p, m)
    /\ callerM' = [callerM EXCEPT ![p] =
          [value |-> m,
           at |-> IF AddResult(migrations[p], m) = ErrNil
                  THEN copyCell(Len(migrations[p]) + 1) ELSE 0]]

\* the values the caller writes to the fields of its variable
CallerWrites(m) ==
    {[m EXCEPT !.Version = v] : v \in VersionPool \cup {<<>>}}
    \cup {[m EXCEPT !.Name = x] : x \in {"", "renamed"}}
    \cup {[m EXCEPT !.UpSQL = x] : x \in {"", "ALTER"}}
    \cup {[m EXCEPT !.ManualChecksum = x] : x \in {"", "v2"}}

\* the caller assigns to a field of its variable between two calls
CallerWrite(p) ==
    /\ frame[p].pc = "idle"
    /\ callerM[p].value # NoArg
    /\ \E new \in CallerWrites(callerM[p].value) \ {callerM[p].value} :
          /\ callerM' = [callerM EXCEPT ![p].value = new]
          /\ migrations' = [migrations EXCEPT ![p] =
                IF callerM[p].at = 0 THEN @ ELSE [@ EXCEPT ![callerM[p].at] = new]]
    /\ UNCHANGED <<lab, store, locked, extHolds, driver, config, applied, frame, obs>>

InitCopy ==
    /\ store = <<>>
    /\ locked = FALSE
    /\ extHolds = FALSE
    /\ driver = [p \in Procs |-> p = 1]
    /\ config = [p \in Procs |-> Configured(TRUE)]
    /\ migrations = [p \in Procs |-> <<>>]
    /\ applied = [p \in Procs |-> <<>>]
    /\ frame = [p \in Procs |-> IdleFrame]
    /\ obs = [p \in Procs |-> NoObs]
    /\ callerM = [p \in Procs |-> NoCaller]
    /\ LabIdle

StepCopy(p) ==
    \/ \E m \in ValidInputs : AddHeld(p, m)
    \/ CallerWrite(p)
    \/ UpSteps(p, 0)
    \/ Down(p, 1)
    \/ Status(p)
    \/ QueenValidate(p)
    \/ DriverInit(p)
    \/ loadApplied(p)
    \/ DriverExec(p)
    \/ DriverRecord(p)
    \/ DriverRemove(p)
    \/ Returned(p)

NextCopy == StepCopy(1)

SpecCopy == InitCopy /\ [][NextCopy]_vars

(***************************************************************************)
(* SpecCompare: Compare as a function of its arguments.  The arguments are *)
(* pairs drawn from all short strings over a small alphabet, the version   *)
(* strings of the package's tests and long digit runs, and triples of      *)
(* short strings; one step calls Compare on them in every order.           *)
(***************************************************************************)
\* the Queens' side of the state, not involved in a call of one function
queen == <<store, locked, extHolds, driver, migrations, config, applied, frame, obs, callerM>>

NoQueen ==
    /\ store = <<>>
    /\ locked = FALSE
    /\ extHolds = FALSE
    /\ driver = [p \in Procs |-> FALSE]
    /\ config = [p \in Procs |-> DefaultConfig]
    /\ migrations = [p \in Procs |-> <<>>]
    /\ applied = [p \in Procs |-> <<>>]
    /\ frame = [p \in Procs |-> IdleFrame]
    /\ obs = [p \in Procs |-> NoObs]
    /\ callerM = [p \in Procs |-> NoCaller]

\* the strings of length up to n over the alphabet A
Words(A, n) == UNION {[1 .. k -> A] : k \in 0 .. n}

\* n times the character c
Rep(c, n) == [k \in 1 .. n |-> c]

ShortAlphabet == {"0", "1", "a", "b"}

TriAlphabet == {"0", "a", "b"}

post_001 == <<"p", "o", "s", "t", "_", "0", "0", "1">>
user_001 == <<"u", "s", "e", "r", "_", "0", "0", "1">>

\* chains of version strings in ascending natural order
ExampleChains ==
    {<< <<"1">>, V2, V10, <<"1", "0", "0">> >>,
     << V001, <<"0", "1", "0">>, <<"1", "0", "0">> >>,
     << <<"v", "1">>, <<"v", "2">>, <<"v", "1", "0">> >>,
     << post_001, user_001 >>,
     << V001, <<"0", "0", "1", "a">>, <<"0", "0", "2">> >>}

Examples == UNION {{ch[k] : k \in 1 .. Len(ch)} : ch \in ExampleChains}

\* digit runs of up to MaxRun digits: ones, nines, and powers of ten
LongRuns ==
    UNION {{Rep("1", n), Rep("9", n), <<"1">> \o Rep("0", n - 1)} : n \in 1 .. MaxRun}

ComparePool == Words(ShortAlphabet, MaxLen) \cup Examples \cup LongRuns

InitCompare ==
    /\ NoQueen
    /\ inst = NoInst
    /\ callerCfg = OwnConfig(config)
    /\ \/ \E a, b \in ComparePool :
             cmp = [NoCmp EXCEPT !.pc = "args", !.a = a, !.b = b]
       \/ \E a, b, c \in Words(TriAlphabet, MaxTri) :
             cmp = [NoCmp EXCEPT !.pc = "args", !.a = a, !.b = b, !.c = c]

\* the caller compares the strings it holds
CompareCall ==
    /\ cmp.pc = "args"
    /\ cmp' = [cmp EXCEPT !.pc = "done",
                          !.aa = Compare(cmp.a, cmp.a),
                          !.ab = Compare(cmp.a, cmp.b),
                          !.ba = Compare(cmp.b, cmp.a),
                          !.bc = Compare(cmp.b, cmp.c),
                          !.ac = Compare(cmp.a, cmp.c)]
    /\ UNCHANGED <<queen, inst, callerCfg>>

NextCompare == CompareCall

SpecCompare == InitCompare /\ [][NextCompare]_vars

(***************************************************************************)
(* SpecOrder: two Queens without locking on one driver store.  They hold   *)
(* the same migrations, registered in opposite orders; among the versions  *)
(* are "00" and "0a".                                                      *)
(***************************************************************************)
V00 == <<"0", "0">>
V0a == <<"0", "a">>

OrderPool == {V00, V0a, V2}

Reverse(s) == [k \in 1 .. Len(s) |-> s[Len(s) + 1 - k]]

\* the registries of up to MaxReg migrations with distinct versions
Registries ==
    {r \in UNION {[1 .. k -> {SqlMigration(v) : v \in OrderPool}] : k \in 1 .. MaxReg} :
        \A i, j \in 1 .. Len(r) : r[i] = r[j] => i = j}

InitOrder ==
    /\ \E r \in Registries :
          /\ migrations = [p \in Procs |-> IF p = 1 THEN r
                                           ELSE IF p = 2 THEN Reverse(r) ELSE <<>>]
          /\ \E S \in SUBSET {r[k].Version : k \in 1 .. Len(r)} :
                store = [v \in S |-> RecordRow(SqlMigration(v))]
    /\ locked = FALSE
    /\ extHolds = FALSE
    /\ driver = [p \in Procs |-> p <= 2]
    /\ config = [p \in Procs |-> Configured(TRUE)]
    /\ applied = [p \in Procs |-> <<>>]
    /\ frame = [p \in Procs |-> IdleFrame]
    /\ obs = [p \in Procs |-> NoObs]
    /\ callerM = [p \in Procs |-> NoCaller]
    /\ LabIdle

StepOrder(p) ==
    \/ \E n \in 0 .. 1 : UpSteps(p, n)
    \/ \E n \in 0 .. 1 : Down(p, n)
    \/ Reset(p)
    \/ DriverInit(p)
    \/ loadApplied(p)
    \/ DriverExec(p)
    \/ DriverRecord(p)
    \/ DriverRemove(p)
    \/ Returned(p)

NextOrder == StepOrder(1) \/ StepOrder(2)

SpecOrder == InitOrder /\ [][NextOrder]_vars

(***************************************************************************)
(* SpecSum: Migration.Checksum as the caller of one Migration value sees   *)
(* it.  inst holds the value and a copy of it (as Add makes one with       *)
(* migration := m): the fields, the sync.Once and the memoized checksum,   *)
(* and what the calls of Checksum on it returned.  Between two calls the   *)
(* caller assigns to the fields.  Checksum creates the Once and runs it in *)
(* the same call, so outside a call a Once is nil or done; a copy shares   *)
(* the pointer to a done Once and takes the memoized string with it.       *)
(***************************************************************************)
\* a Migration value on which Checksum was never called, and its history:
\* first, last: what the first and the latest call returned; atFirst: the
\* fields at the first call; inherited: the checksum memoized in the value
\* it was copied from; again: a call was made after the fields were written
\* to since the first call
Fresh(m) ==
    [m |-> m, once |-> "nil", checksum |-> "", called |-> FALSE, first |-> "",
     last |-> "", atFirst |-> NoArg, inherited |-> "", wrote |-> FALSE, again |-> FALSE]

SumInputs ==
    {M(V001, "m001", up, TRUE, down, FALSE, manual) :
        up \in {"", "CREATE"}, down \in {"", "DROP TABLE"}, manual \in {"", "v1"}}

\* the values the caller assigns to the fields the checksum is computed from
SumWrites(m) ==
    {[m EXCEPT !.UpSQL = x] : x \in {"", "CREATE", "ALTER"}}
    \cup {[m EXCEPT !.DownSQL = x] : x \in {"", "DROP TABLE"}}
    \cup {[m EXCEPT !.ManualChecksum = x] : x \in {"", "v1"}}

InitSum ==
    /\ NoQueen
    /\ cmp = NoCmp
    /\ callerCfg = OwnConfig(config)
    /\ \E m \in SumInputs : inst = <<Fresh(m)>>

\* mutant: the checksum computed anew on every call
ReturnedChecksumRecomputed(x) == Checksum(x.m)

\* what Checksum returns on the value x: checksumOnce.Do runs the
\* computation unless the Once is done, then m.checksum is returned
ReturnedChecksum(x) == IF x.once = "done" THEN x.checksum ELSE Checksum(x.m)

\* m.Checksum() on the value in cell c
ChecksumCall(c) ==
    /\ c \in DOMAIN inst
    /\ LET x == inst[c]
           sum == ReturnedChecksum(x)
       IN  inst' = [inst EXCEPT ![c] =
              [x EXCEPT !.once = "done", !.checksum = sum, !.called = TRUE,
                        !.first = IF x.called THEN @ ELSE sum,
                        !.atFirst = IF x.called THEN @ ELSE x.m,
                        !.last = sum,
                        !.again = @ \/ x.wrote]]
    /\ UNCHANGED <<queen, cmp, callerCfg>>

\* the caller assigns to a field of the value in cell c
FieldWrite(c) ==
    /\ c \in DOMAIN inst
    /\ \E new \in SumWrites(inst[c].m) \ {inst[c].m} :
          inst' = [inst EXCEPT ![c] = [@ EXCEPT !.m = new, !.wrote = @ \/ inst[c].called]]
    /\ UNCHANGED <<queen, cmp, callerCfg>>

\* migration := m: every field is copied, the pointer checksumOnce and the
\* string checksum among them
CopyStruct ==
    /\ Len(inst) = 1
    /\ inst' = Append(inst, [Fresh(inst[1].m) EXCEPT !.once = inst[1].once,
                                                      !.checksum = inst[1].checksum,
                                                      !.inherited = inst[1].checksum])
    /\ UNCHANGED <<queen, cmp, callerCfg>>

NextSum ==
    \/ \E c \in DOMAIN inst : ChecksumCall(c)
    \/ \E c \in DOMAIN inst : FieldWrite(c)
    \/ CopyStruct

SpecSum == InitSum /\ [][NextSum]_vars

(***************************************************************************)
(* SpecCfg: one Queen built by NewWithConfig from a Config the caller      *)
(* keeps, or from nil.  NewWithConfig normalizes the Config in place and   *)
(* stores the pointer it was given, so the Queen's config and the caller's *)
(* Config are one object: what the caller assigns to a field afterwards is *)
(* what the Queen reads at its next call.                                  *)
(***************************************************************************)
\* the Configs a caller passes; LockTimeout is in minutes
CallerConfigs ==
    [TableName : {"", "migrations"}, LockTimeout : {0, 5}, SkipLock : BOOLEAN]

\* the fixes NewWithConfig applies to the Config it was given
Normalized(cfg) ==
    [cfg EXCEPT !.TableName = IF @ = "" THEN "queen_migrations" ELSE @,
                !.LockTimeout = IF @ <= 0 THEN 30 ELSE @]

\* the values the caller assigns to the fields of its Config
ConfigWrites(cfg) ==
    {[cfg EXCEPT !.TableName = x] : x \in {"", "migrations"}}
    \cup {[cfg EXCEPT !.LockTimeout = x] : x \in {0, 5}}
    \cup {[cfg EXCEPT !.SkipLock = x] : x \in BOOLEAN}

InitCfg ==
    /\ store = <<>>
    /\ locked = FALSE
    /\ extHolds = FALSE
    /\ driver = [p \in Procs |-> p = 1]
    /\ \E cfg \in CallerConfigs, kept \in BOOLEAN :
          /\ config = [p \in Procs |-> IF p = 1 /\ kept THEN Normalized(cfg)
                                       ELSE DefaultConfig]
          /\ callerCfg = [p \in Procs |-> [held |-> p = 1 /\ kept, built |-> config[p]]]
    /\ migrations = [p \in Procs |-> IF p = 1 THEN <<SqlMigration(V2)>> ELSE <<>>]
    /\ applied = [p \in Procs |-> <<>>]
    /\ frame = [p \in Procs |-> IdleFrame]
    /\ obs = [p \in Procs |-> NoObs]
    /\ callerM = [p \in Procs |-> NoCaller]
    /\ cmp = NoCmp
    /\ inst = NoInst

\* between two calls the caller assigns to a field of the Config it passed
CallerConfigWrite(p) ==
    /\ frame[p].pc = "idle"
    /\ callerCfg[p].held
    /\ \E new \in ConfigWrites(config[p]) \ {config[p]} :
          config' = [config EXCEPT ![p] = new]
    /\ UNCHANGED <<lab, callerM, store, locked, extHolds, driver, migrations, applied,
                   frame, obs>>

StepCfg(p) ==
    \/ CallerConfigWrite(p)
    \/ UpSteps(p, 0)
    \/ Down(p, 1)
    \/ DriverInit(p)
    \/ DriverLock(p)
    \/ loadApplied(p)
    \/ DriverExec(p)
    \/ DriverRecord(p)
    \/ DriverRemove(p)
    \/ DriverUnlock(p)
    \/ Returned(p)

NextCfg == StepCfg(1)

SpecCfg == InitCfg /\ [][NextCfg]_vars

(***************************************************************************)
(* SpecReload: one Queen, with or without locking, and a process outside   *)
(* that takes the driver's lock and, while it holds it, records and        *)
(* removes rows of the tracking table.                                     *)
(***************************************************************************)
ReloadRegistry == <<SqlMigration(V10), SqlMigration(V2)>>

InitReload ==
    /\ store = <<>>
    /\ locked = FALSE
    /\ extHolds = FALSE
    /\ driver = [p \in Procs |-> p = 1]
    /\ config \in [Procs -> {Configured(skip) : skip \in BOOLEAN}]
    /\ \A p \in Procs \ {1} : ~config[p].SkipLock
    /\ migrations = [p \in Procs |-> IF p = 1 THEN ReloadRegistry ELSE <<>>]
    /\ applied = [p \in Procs |-> <<>>]
    /\ frame = [p \in Procs |-> IdleFrame]
    /\ obs = [p \in Procs |-> NoObs]
    /\ callerM = [p \in Procs |-> NoCaller]
    /\ LabIdle

\* the holder of the lock outside writes or deletes the row of a version
ExtWrite ==
    /\ extHolds
    /\ \E v \in {V2, V10} :
          \/ v \notin DOMAIN store /\ store' = Put(store, v, InitRecord(v))
          \/ v \in DOMAIN store /\ store' = Delete(store, v)
    /\ UNCHANGED <<lab, callerM, locked, extHolds, driver, migrations, config, applied,
                   frame, obs>>

StepReload(p) ==
    \/ UpSteps(p, 0)
    \/ Down(p, 1)
    \/ Reset(p)
    \/ Status(p)
    \/ DriverInit(p)
    \/ DriverLock(p)
    \/ loadApplied(p)
    \/ DriverExec(p)
    \/ DriverRecord(p)
    \/ DriverRemove(p)
    \/ DriverUnlock(p)
    \/ Returned(p)

NextReload == StepReload(1) \/ ExtLock \/ ExtUnlock \/ ExtWrite

SpecReload == InitReload /\ [][NextReload]_vars

(***************************************************************************)
(* SpecRepair: one Queen, without locking, whose registered SQL migrations *)
(* all have a record in the tracking table, written from an earlier text   *)
(* of the migration: each record holds the checksum of that earlier text.  *)
(***************************************************************************)
\* the record written when the up text of v was still "CREATE v0"
EditedRow(v) == [Name |-> NameOf(v), Checksum |-> Calculate("CREATE v0", "DROP TABLE")]

RepairRegistries ==
    {<<SqlMigration(V2)>>, <<SqlMigration(V10), SqlMigration(V2)>>,
     <<SqlMigration(V2), MixedMigration(V001)>>}

InitRepair ==
    /\ \E r \in RepairRegistries :
          /\ migrations = [p \in Procs |-> IF p = 1 THEN r ELSE <<>>]
          /\ store = [v \in {r[i].Version : i \in 1 .. Len(r)} |-> EditedRow(v)]
    /\ locked = FALSE
    /\ extHolds = FALSE
    /\ driver = [p \in Procs |-> p = 1]
    /\ config = [p \in Procs |-> Configured(p = 1)]
    /\ applied = [p \in Procs |-> <<>>]
    /\ frame = [p \in Procs |-> IdleFrame]
    /\ obs = [p \in Procs |-> NoObs]
    /\ callerM = [p \in Procs |-> NoCaller]
    /\ LabIdle

StepRepair(p) ==
    \/ \E n \in 0 .. 1 : UpSteps(p, n)
    \/ \E n \in 1 .. 2 : Down(p, n)
    \/ Reset(p)
    \/ Status(p)
    \/ DriverInit(p)
    \/ loadApplied(p)
    \/ DriverExec(p)
    \/ DriverRecord(p)
    \/ DriverRemove(p)
    \/ Returned(p)

NextRepair == StepRepair(1)

SpecRepair == InitRepair /\ [][NextRepair]_vars

(***************************************************************************)
(* SpecRace: NumProcs Queens on one driver store, all with locking or all  *)
(* without it, each holding the same two migrations; the callers run Up    *)
(* and nothing else, and they start their calls together: a call begins    *)
(* while every other Queen is idle or has begun its call and made no       *)
(* driver call yet, so that the calls of one round overlap in time.        *)
(***************************************************************************)
StartTogether(p) == \A q \in Procs \ {p} : frame[q].pc \in {"idle", "init"}

InitRace ==
    /\ store = <<>>
    /\ locked = FALSE
    /\ extHolds = FALSE
    /\ driver = [p \in Procs |-> TRUE]
    /\ \E skip \in BOOLEAN : config = [p \in Procs |-> Configured(skip)]
    /\ migrations = [p \in Procs |-> ConcRegistry]
    /\ applied = [p \in Procs |-> <<>>]
    /\ frame = [p \in Procs |-> IdleFrame]
    /\ obs = [p \in Procs |-> NoObs]
    /\ callerM = [p \in Procs |-> NoCaller]
    /\ LabIdle

StepRace(p) ==
    \/ StartTogether(p) /\ UpSteps(p, 0)
    \/ DriverInit(p)
    \/ DriverLock(p)
    \/ loadApplied(p)
    \/ DriverExec(p)
    \/ DriverRecord(p)
    \/ DriverUnlock(p)
    \/ Returned(p)

NextRace == \E p \in Procs : StepRace(p)

SpecRace == InitRace /\ [][NextRace]_vars

(***************************************************************************)
(* SpecSkip: NumProcs Queens with SkipLock set on one driver store, each   *)
(* holding the same two migrations; the callers run Up, and the caller of  *)
(* the watched Queen also Down of one step and Reset; they start their     *)
(* calls together.                                                         *)
(***************************************************************************)
InitSkip ==
    /\ store = <<>>
    /\ locked = FALSE
    /\ extHolds = FALSE
    /\ driver = [p \in Procs |-> TRUE]
    /\ config = [p \in Procs |-> Configured(TRUE)]
    /\ migrations = [p \in Procs |-> ConcRegistry]
    /\ applied = [p \in Procs |-> <<>>]
    /\ frame = [p \in Procs |-> IdleFrame]
    /\ obs = [p \in Procs |-> NoObs]
    /\ callerM = [p \in Procs |-> NoCaller]
    /\ LabIdle

StepSkip(p) ==
    \/ StartTogether(p) /\ UpSteps(p, 0)
    \/ p \in Watched /\ StartTogether(p) /\ Down(p, 1)
    \/ p \in Watched /\ StartTogether(p) /\ Reset(p)
    \/ DriverInit(p)
    \/ loadApplied(p)
    \/ DriverExec(p)
    \/ DriverRecord(p)
    \/ DriverRemove(p)
    \/ Returned(p)

NextSkip == \E p \in Procs : StepSkip(p)

SpecSkip == InitSkip /\ [][NextSkip]_vars

(***************************************************************************)
(* SpecRetry: one Queen, without locking, with two or three SQL migrations *)
(* registered and records of some of them in the table; its caller runs    *)
(* Up, Down and Reset one after the other, and the observer keeps from     *)
(* each call which Record or Remove failed in it.                          *)
(***************************************************************************)
RetryRegistries ==
    {ConcRegistry, <<SqlMigration(V10), SqlMigration(V001), SqlMigration(V2)>>}

InitRetry ==
    /\ \E r \in RetryRegistries :
          /\ migrations = [p \in Procs |-> IF p = 1 THEN r ELSE <<>>]
          /\ \E S \in SUBSET {r[i].Version : i \in 1 .. Len(r)} :
                store = [v \in S |-> InitRecord(v)]
    /\ locked = FALSE
    /\ extHolds = FALSE
    /\ driver = [p \in Procs |-> p = 1]
    /\ config = [p \in Procs |-> Configured(p = 1)]
    /\ applied = [p \in Procs |-> <<>>]
    /\ frame = [p \in Procs |-> IdleFrame]
    /\ obs = [p \in Procs |-> NoObs]
    /\ callerM = [p \in Procs |-> NoCaller]
    /\ LabIdle

StepRetry(p) ==
    \/ \E n \in 0 .. 1 : UpSteps(p, n)
    \/ \E n \in 1 .. 2 : Down(p, n)
    \/ Reset(p)
    \/ DriverInit(p)
    \/ loadApplied(p)
    \/ DriverExec(p)
    \/ DriverRecord(p)
    \/ DriverRemove(p)
    \/ ReturnedFollowed(p)

NextRetry == StepRetry(1)

SpecRetry == InitRetry /\ [][NextRetry]_vars

(***************************************************************************)
(* SpecCancel: one Queen whose caller cancels the context only while the   *)
(* call is in its loop over the work set.                                  *)
(***************************************************************************)
\* ctx is cancelled between two driver calls of the loop over the work set
CancelAtWork(p) ==
    /\ frame[p].pc \in {"exec", "record", "remove"}
    /\ Cancel(p)

StepCancel(p) ==
    \/ \E m \in ValidInputs : Add(p, m) /\ UNCHANGED callerM
    \/ \E n \in NValues : UpSteps(p, n)
    \/ \E n \in NValues : Down(p, n)
    \/ Reset(p)
    \/ DriverInit(p)
    \/ DriverLock(p)
    \/ loadApplied(p)
    \/ DriverExec(p)
    \/ DriverRecord(p)
    \/ DriverRemove(p)
    \/ DriverUnlock(p)
    \/ Returned(p)
    \/ CancelAtWork(p)

NextCancel == StepCancel(1)

SpecCancel == Init /\ [][NextCancel]_vars

(***************************************************************************)
(* Properties.  They speak of the watched Queen at the moment its call has *)
(* returned (frame.pc = "done"), through what the observer recorded.       *)
(***************************************************************************)
W == CHOOSE p \in Watched : TRUE

Returns(ops) == frame[W].pc = "done" /\ obs[W].op \in ops

MutatingOps == {"UpSteps", "Down", "Reset"}

Calls == obs[W].calls

\* the versions of the calls of one kind, in call order
RECURSIVE VersionsOf(_, _)
VersionsOf(cs, kind) ==
    IF cs = <<>> THEN <<>>
    ELSE IF Head(cs).call = kind THEN <<Head(cs).v>> \o VersionsOf(Tail(cs), kind)
    ELSE VersionsOf(Tail(cs), kind)

CallCount(kind) == Cardinality({i \in 1 .. Len(Calls) : Calls[i].call = kind})

Called(kind) == CallCount(kind) > 0

CalledOk(kind) == \E i \in 1 .. Len(Calls) : Calls[i].call = kind /\ Calls[i].out = "ok"

NothingFailed == \A i \in 1 .. Len(Calls) : Calls[i].out = "ok"

WorkCalls == {"Exec", "Record", "Remove"}

Range(s) == {s[i] : i \in 1 .. Len(s)}

RegisteredVersions == {migrations[W][i].Version : i \in 1 .. Len(migrations[W])}

Registered(v) == CHOOSE m \in Range(migrations[W]) : m.Version = v

\* the natural order of the pool's versions, by the number each one denotes
NaturalRank(v) == IF v = V001 THEN 1 ELSE IF v = V2 THEN 2 ELSE 10

\* the k lowest (up = TRUE) or highest versions of S, in that order
Ordered(S, k, up) ==
    CHOOSE s \in [1 .. k -> S] :
        /\ \A i, j \in 1 .. k :
              i < j => IF up THEN NaturalRank(s[i]) < NaturalRank(s[j])
                             ELSE NaturalRank(s[i]) > NaturalRank(s[j])
        /\ \A x \in S \ Range(s) : \A i \in 1 .. k :
              IF up THEN NaturalRank(s[i]) < NaturalRank(x)
                    ELSE NaturalRank(s[i]) > NaturalRank(x)

Min(a, b) == IF a < b THEN a ELSE b

IsPrefix(s, t) == Len(s) <= Len(t) /\ s = SubSeq(t, 1, Len(s))

\* C1 (as amended): while a caller outside holds the driver's lock, a call of
\* UpSteps, Down or Reset on a Queen with locking enabled fails; it makes no
\* driver call but Init and Lock, so no Exec, Record or Remove, and the store
\* is the same after the call as before; when Init succeeded Lock is called
\* and is refused, and the call returns what Lock returned: ErrLockTimeout
\* unless the driver reported an error of its own.
C1_LockHeldCallRefused ==
    (Returns(MutatingOps) /\ driver[W] /\ ~config[W].SkipLock /\ obs[W].extHeld) =>
        /\ obs[W].result # ErrNil
        /\ \A i \in 1 .. Len(Calls) : Calls[i].call \in {"Init", "Lock"}
        /\ store = obs[W].store0
        /\ CalledOk("Init") =>
              /\ Len(Calls) = 2
              /\ Calls[2].call = "Lock"
              /\ Calls[2].out # "ok"
              /\ obs[W].result = Err(Calls[2].out)
              /\ Calls[2].out \notin {"DriverErr", "CtxErr"} => obs[W].result = ErrLockTimeout

\* C1 witness: Up on a Queen with two pending migrations is refused with
\* ErrLockTimeout while the outside caller holds the lock.
C1_Witness ==
    /\ Returns({"UpSteps"}) /\ ~config[W].SkipLock /\ obs[W].extHeld
    /\ Len(migrations[W]) = 2
    /\ store = <<>>
    /\ obs[W].result = ErrLockTimeout

\* C1 as stated: while the lock is held outside, every call of UpSteps, Down
\* or Reset on a Queen with locking enabled returns ErrLockTimeout, calls no
\* Exec, Record or Remove and leaves the store as it was.
C1_Original ==
    (Returns(MutatingOps) /\ driver[W] /\ ~config[W].SkipLock /\ obs[W].extHeld) =>
        /\ obs[W].result = ErrLockTimeout
        /\ \A i \in 1 .. Len(Calls) : Calls[i].call \notin WorkCalls
        /\ store = obs[W].store0

\* between the successful Lock of a call and its Unlock
Holding(p) == frame[p].deferred

InWorkLoop(p) == frame[p].pc \in {"load", "exec", "record", "remove"}

\* C2: with locking enabled and several Queens on one driver store running
\* UpSteps, Down and Reset concurrently, at most one of them is between its
\* successful Lock and its Unlock, and only that one is between its reload and
\* its last Exec / Record / Remove, so the driver calls of two operations are
\* never interleaved.
C2_OneHolder ==
    /\ \A p, q \in Procs : (p # q /\ Holding(p)) => ~Holding(q)
    /\ \A p \in Procs : (InWorkLoop(p) \/ frame[p].pc = "unlock") <=> Holding(p)
    /\ \A p \in Procs : Holding(p) => locked

\* C2 witness: Queen 2 is about to Record inside its Up while Queen 1's call
\* has come back with ErrLockTimeout.
C2_Witness ==
    /\ frame[2].pc = "record" /\ Holding(2)
    /\ Returns(MutatingOps) /\ obs[W].result = ErrLockTimeout

UnlockCalls == {i \in 1 .. Len(Calls) : Calls[i].call = "Unlock"}

\* C3: when a call of UpSteps, Down or Reset returns, Unlock has been called
\* exactly once if its Lock succeeded and not at all otherwise, whatever the
\* call returns; the Unlock is the call's last driver call, it is given
\* context.Background(), and when it succeeded this Queen no longer holds the
\* lock.
C3_UnlockOnEveryExit ==
    Returns(MutatingOps) =>
        /\ CalledOk("Lock") => /\ UnlockCalls = {Len(Calls)}
                               /\ Calls[Len(Calls)].ctx = BackgroundCtx
                               /\ Calls[Len(Calls)].out = "ok" => (locked => extHolds)
        /\ ~CalledOk("Lock") => UnlockCalls = {}
        /\ ~Holding(W)

\* C3 witness: a call whose context was cancelled under it returns the
\* MigrationError of a failed Record, after one migration was recorded, and
\* has unlocked.
C3_Witness ==
    /\ Returns({"UpSteps"})
    /\ obs[W].result.kind = "MigrationError" /\ obs[W].result.Err = "CtxErr"
    /\ VersionsOf(Calls, "Record") = <<V2, V10>>
    /\ CalledOk("Lock") /\ CalledOk("Unlock")

Snap == obs[W].snap

PendingAtReload == RegisteredVersions \ DOMAIN Snap

AppliedAtReload == RegisteredVersions \cap DOMAIN Snap

UpCount == IF obs[W].n > 0 THEN Min(obs[W].n, Cardinality(PendingAtReload))
           ELSE Cardinality(PendingAtReload)

DownCount ==
    IF obs[W].op = "Reset" THEN Cardinality(AppliedAtReload)
    ELSE Min(IF obs[W].n <= 0 THEN 1 ELSE obs[W].n, Cardinality(AppliedAtReload))

UpWork == Ordered(PendingAtReload, UpCount, TRUE)

DownWork == Ordered(AppliedAtReload, DownCount, FALSE)

\* v, v for each version of s: Exec v then Record v (or Remove v)
RECURSIVE Paired(_, _)
Paired(s, second) ==
    IF s = <<>> THEN <<>>
    ELSE <<[call |-> "Exec", v |-> Head(s)], [call |-> second, v |-> Head(s)]>>
         \o Paired(Tail(s), second)

RECURSIVE WorkTrace(_)
WorkTrace(cs) ==
    IF cs = <<>> THEN <<>>
    ELSE IF Head(cs).call \in WorkCalls
         THEN <<[call |-> Head(cs).call, v |-> Head(cs).v]>> \o WorkTrace(Tail(cs))
         ELSE WorkTrace(Tail(cs))

\* C4: once UpSteps(n) has reloaded the applied set, its work set is the
\* registered migrations whose version is absent from that set, ascending in
\* natural order, cut to the first n when n > 0: the migrations it executes
\* are a prefix of this list; when it returns nil it has executed and then
\* recorded each of them, in that order; an empty work set makes it return nil
\* with no Exec and no Record.
C4_UpWorkSet ==
    (Returns({"UpSteps"}) /\ CalledOk("GetApplied")) =>
        /\ IsPrefix(VersionsOf(Calls, "Exec"), UpWork)
        /\ obs[W].result = ErrNil => WorkTrace(Calls) = Paired(UpWork, "Record")
        /\ PendingAtReload = {} => obs[W].result = ErrNil /\ WorkTrace(Calls) = <<>>

\* C4 witness: UpSteps(1) with 10 registered before 2 and both pending has
\* executed and recorded 2 only.
C4_Witness ==
    /\ Returns({"UpSteps"}) /\ obs[W].n = 1 /\ obs[W].result = ErrNil
    /\ Len(migrations[W]) = 2 /\ migrations[W][1].Version = V10
    /\ Cardinality(PendingAtReload) = 2
    /\ WorkTrace(Calls) = Paired(<<V2>>, "Record")

WithoutKeys(f, S) == [x \in DOMAIN f \ S |-> f[x]]

\* C5: Down(n) takes n <= 0 as 1 and rolls back the first min(n, k) of the k
\* registered migrations with an applied record at the reload, highest version
\* first: it executes a prefix of that list; when it returns nil it has
\* executed and removed each of them in that order, exactly their records are
\* gone from the store and every other record is as it was; when k = 0 it
\* returns nil and changes nothing.
C5_DownWorkSet ==
    (Returns({"Down"}) /\ CalledOk("GetApplied")) =>
        /\ IsPrefix(VersionsOf(Calls, "Exec"), DownWork)
        /\ obs[W].result = ErrNil =>
              /\ WorkTrace(Calls) = Paired(DownWork, "Remove")
              /\ store = WithoutKeys(Snap, Range(DownWork))
        /\ AppliedAtReload = {} =>
              obs[W].result = ErrNil /\ WorkTrace(Calls) = <<>> /\ store = Snap

\* C5 witness: Down(-1) on a store holding three records, two of them of
\* registered migrations, has removed the record of 10 and left the others.
C5_Witness ==
    /\ Returns({"Down"}) /\ obs[W].n = 0 - 1 /\ obs[W].result = ErrNil
    /\ DOMAIN Snap = VersionPool
    /\ RegisteredVersions = {V2, V10}
    /\ DOMAIN store = {V001, V2}

FailedWorkCalls == {i \in 1 .. Len(Calls) : Calls[i].call \in WorkCalls /\ Calls[i].out # "ok"}

RECURSIVE OkVersionsOf(_, _)
OkVersionsOf(cs, kind) ==
    IF cs = <<>> THEN <<>>
    ELSE IF Head(cs).call = kind /\ Head(cs).out = "ok"
         THEN <<Head(cs).v>> \o OkVersionsOf(Tail(cs), kind)
         ELSE OkVersionsOf(Tail(cs), kind)

IndexIn(s, v) == CHOOSE k \in 1 .. Len(s) : s[k] = v

Work == IF obs[W].op = "UpSteps" THEN UpWork ELSE DownWork

\* the store after the migrations of s were recorded on top of f
RECURSIVE WithRecorded(_, _)
WithRecorded(f, s) ==
    IF s = <<>> THEN f
    ELSE WithRecorded([x \in DOMAIN f \cup {Head(s)} |->
                          IF x = Head(s)
                          THEN [Name |-> Registered(x).Name,
                                Checksum |-> Checksum(Registered(x))]
                          ELSE f[x]],
                      Tail(s))

\* C6: when the Exec, the Record or the Remove of a work-set migration fails
\* during UpSteps, Down or Reset, no driver call but the Unlock follows it,
\* the call returns the MigrationError with that migration's version and name
\* wrapping the error of the failed call, and the store keeps what the call
\* did for the migrations before it: their records written (UpSteps) or
\* removed (Down, Reset), nothing undone.
C6_StopAtFirstFailure ==
    obs[W].op \in MutatingOps =>
        \A i \in FailedWorkCalls :
            /\ \A j \in (i + 1) .. Len(Calls) : Calls[j].call = "Unlock"
            /\ Returns(MutatingOps) =>
                  LET v == Calls[i].v
                      before == SubSeq(Work, 1, IndexIn(Work, v) - 1)
                  IN  /\ obs[W].result = [kind |-> "MigrationError", Version |-> v,
                                          Name |-> Registered(v).Name,
                                          Err |-> Calls[i].out]
                      /\ v \in Range(Work)
                      /\ IF obs[W].op = "UpSteps"
                         THEN /\ OkVersionsOf(Calls, "Record") = before
                              /\ store = WithRecorded(Snap, before)
                         ELSE /\ OkVersionsOf(Calls, "Remove") = before
                              /\ store = WithoutKeys(Snap, Range(before))

\* C6 witness: Up recorded 2, then the up action of 10 failed; the call
\* returned the MigrationError of 10 and the record of 2 is in the store.
C6_Witness ==
    /\ Returns({"UpSteps"})
    /\ obs[W].result = [kind |-> "MigrationError", Version |-> V10, Name |-> "m10",
                        Err |-> "ActionErr"]
    /\ Snap = <<>>
    /\ DOMAIN store = {V2}

\* C7: when the Exec of a migration's up action returns an error during
\* UpSteps, Record is not called for that version, and when the call returns
\* neither the store nor the Queen's cache holds that version.
C7_FailedUpUnrecorded ==
    Returns({"UpSteps"}) =>
        \A i \in 1 .. Len(Calls) :
            (Calls[i].call = "Exec" /\ Calls[i].out # "ok") =>
                /\ Calls[i].v \notin Range(VersionsOf(Calls, "Record"))
                /\ Calls[i].v \notin DOMAIN store
                /\ Calls[i].v \notin DOMAIN applied[W]

\* C7 witness: the up action of 2 returned an error to an Up that found two
\* records in the store.
C7_Witness ==
    /\ Returns({"UpSteps"})
    /\ \E i \in 1 .. Len(Calls) :
          Calls[i] = [call |-> "Exec", v |-> V2, out |-> "ActionErr", ctx |-> CallerCtx]
    /\ DOMAIN store = {V001, V10}

NoRollbackAt == {k \in 1 .. Len(DownWork) : ~HasRollback(Registered(DownWork[k]))}

NoRollbackError(v) ==
    [kind |-> "MigrationError", Version |-> v, Name |-> Registered(v).Name,
     Err |-> "no down migration defined"]

\* C8: when the work set of Down or Reset holds a migration without a down
\* action, the call fails; Exec and Remove are not called for the first such
\* migration, whose record and cache entry are still there when the call
\* returns; when every migration before it was rolled back, the call returns
\* the no-down-migration MigrationError of that migration; and the call
\* returns that error in no other case.
C8_NoRollbackNoStorage ==
    (Returns({"Down", "Reset"}) /\ CalledOk("GetApplied")) =>
        /\ NoRollbackAt # {} =>
              LET k == CHOOSE x \in NoRollbackAt : \A y \in NoRollbackAt : x <= y
                  v == DownWork[k]
              IN  /\ obs[W].result # ErrNil
                  /\ v \notin Range(VersionsOf(Calls, "Exec"))
                  /\ v \notin Range(VersionsOf(Calls, "Remove"))
                  /\ v \in DOMAIN store /\ store[v] = Snap[v]
                  /\ v \in DOMAIN applied[W]
                  /\ OkVersionsOf(Calls, "Remove") = SubSeq(DownWork, 1, k - 1)
                        => obs[W].result = NoRollbackError(v)
                  /\ obs[W].result.Err = "no down migration defined"
                        => obs[W].result = NoRollbackError(v)
        /\ NoRollbackAt = {} => obs[W].result.Err # "no down migration defined"

\* C8 witness: Reset rolled 10 back and then stopped at 001, which has no
\* down action.
C8_Witness ==
    /\ Returns({"Reset"})
    /\ V001 \in RegisteredVersions
    /\ obs[W].result = NoRollbackError(V001)
    /\ WorkTrace(Calls) = Paired(<<V10>>, "Remove")
    /\ V001 \in DOMAIN store

\* the scenario of C9: 001 without a down action and 2 with one are the
\* registry, both have a record at the reload, Down(2) is called and no driver
\* call fails
C9_Scenario ==
    /\ Returns({"Down"}) /\ obs[W].n = 2
    /\ Range(migrations[W]) = {FuncMigration(V001), SqlMigration(V2)}
    /\ {V001, V2} \subseteq DOMAIN Snap
    /\ NothingFailed

\* C9 (as amended): in that scenario Down(2) fails on 001 with the
\* no-down-migration error after it has rolled 2 back and removed its
\* record; the record of 001 stays.
C9_FailsAfterRemovingHigher ==
    C9_Scenario =>
        /\ obs[W].result = NoRollbackError(V001)
        /\ WorkTrace(Calls) = Paired(<<V2>>, "Remove")
        /\ V2 \notin DOMAIN store
        /\ V001 \in DOMAIN store

\* C9 witness: the scenario has happened, with 001 registered first.
C9_Witness == C9_Scenario /\ migrations[W][1].Version = V001

\* C9 as stated: in that scenario Down(2) fails on 001 with the
\* no-down-migration error without ever removing the record of 2.
C9_Original ==
    C9_Scenario =>
        /\ obs[W].result = NoRollbackError(V001)
        /\ V2 \notin Range(VersionsOf(Calls, "Remove"))
        /\ V2 \in DOMAIN store

\* C10: after an Up that started on an empty store, in which no driver call
\* and no action failed, and with every registered migration having a down
\* action, a Reset, or a Down(n) with n at least the number of registered
\* migrations, in which nothing fails either returns nil and leaves the store
\* empty and the lock released.
C10_UpThenBackToEmpty ==
    ( /\ Returns({"Down", "Reset"})
      /\ obs[W].prevUp
      /\ obs[W].op = "Down" => obs[W].n >= Len(migrations[W])
      /\ \A m \in Range(migrations[W]) : HasRollback(m)
      /\ NothingFailed ) =>
        /\ obs[W].result = ErrNil
        /\ store = <<>>
        /\ locked => extHolds
        /\ Range(VersionsOf(Calls, "Remove")) = RegisteredVersions

\* C10 witness: Down(2) after Up has removed the records of both registered
\* migrations, under the lock.
C10_Witness ==
    /\ Returns({"Down"}) /\ obs[W].prevUp /\ obs[W].n = 2
    /\ Len(migrations[W]) = 2
    /\ CalledOk("Unlock")
    /\ WorkTrace(Calls) = Paired(<<V10, V2>>, "Remove")
    /\ store = <<>>

\* the calls of the running or finished call without the Unlock
RECURSIVE BeforeUnlock(_)
BeforeUnlock(cs) ==
    IF cs = <<>> THEN <<>>
    ELSE IF Head(cs).call = "Unlock" THEN BeforeUnlock(Tail(cs))
    ELSE <<Head(cs)>> \o BeforeUnlock(Tail(cs))

\* the work list of Down(n) at the reload
DownList(n) ==
    Ordered(AppliedAtReload,
            Min(IF n <= 0 THEN 1 ELSE n, Cardinality(AppliedAtReload)), FALSE)

\* what a finished Down(n) looks like to its caller and to the driver: the
\* calls up to the reload, then the work list rolled back up to the first
\* migration without a down action or the first failed call
BehavesAsDown(n) ==
    LET body == BeforeUnlock(Calls)
        work == DownList(n)
        removed == OkVersionsOf(Calls, "Remove")
        j == Len(removed)
    IN  IF ~CalledOk("GetApplied")
        THEN /\ WorkTrace(Calls) = <<>>
             /\ store = obs[W].store0
             /\ IF body = <<>> THEN obs[W].result = ErrNoDriver
                ELSE /\ body[Len(body)].out # "ok"
                     /\ obs[W].result = Err(body[Len(body)].out)
        ELSE /\ removed = SubSeq(work, 1, j)
             /\ store = WithoutKeys(Snap, Range(removed))
             /\ applied[W] = WithoutKeys(Snap, Range(removed))
             /\ IF j = Len(work)
                THEN /\ obs[W].result = ErrNil
                     /\ WorkTrace(Calls) = Paired(work, "Remove")
                ELSE IF ~HasRollback(Registered(work[j + 1]))
                THEN /\ obs[W].result = NoRollbackError(work[j + 1])
                     /\ WorkTrace(Calls) = Paired(removed, "Remove")
                ELSE /\ body[Len(body)].call \in {"Exec", "Remove"}
                     /\ body[Len(body)].v = work[j + 1]
                     /\ body[Len(body)].out # "ok"
                     /\ obs[W].result =
                           [kind |-> "MigrationError", Version |-> work[j + 1],
                            Name |-> Registered(work[j + 1]).Name,
                            Err |-> body[Len(body)].out]
                     /\ WorkTrace(Calls) =
                           IF body[Len(body)].call = "Exec"
                           THEN Paired(removed, "Remove")
                                \o <<[call |-> "Exec", v |-> work[j + 1]]>>
                           ELSE Paired(removed, "Remove")
                                \o <<[call |-> "Exec", v |-> work[j + 1]],
                                     [call |-> "Remove", v |-> work[j + 1]]>>

\* C11: a finished Reset is a finished Down(n) with n the number of
\* registered migrations that had a record at the reload: the same Exec and
\* Remove calls in the same order, the same records left in the store and in
\* the cache, the same value returned, whatever the registry and the store
\* were and whichever call failed.
C11_ResetIsDownOfAll ==
    /\ Returns({"Down"}) => BehavesAsDown(obs[W].n)
    /\ Returns({"Reset"}) => BehavesAsDown(Cardinality(AppliedAtReload))

\* C11 witness: Reset has rolled back 10 and then 2, the two registered
\* migrations, and returned nil.
C11_Witness ==
    /\ Returns({"Reset"}) /\ obs[W].result = ErrNil
    /\ WorkTrace(Calls) = Paired(<<V10, V2>>, "Remove")

Calling(op) == frame[W].pc = "idle" /\ frame'[W].pc # "idle" /\ obs'[W].op = op

Malformed(m) == m.Version = <<>> \/ m.Name = "" \/ (m.UpSQL = "" /\ ~m.UpFunc)

\* C13: Add(m) returns ErrInvalidMigration when m has an empty version, an
\* empty name or neither UpSQL nor UpFunc, and ErrVersionConflict when m is
\* well-formed and a registered migration has its version; a rejected Add
\* leaves the registry as it was, and an accepted Add returns nil and appends
\* m, and nothing else, to the registry.
C13_AddRegisters ==
    [][Calling("Add") =>
          LET m == obs'[W].arg
              r == obs'[W].result
              taken == \E i \in 1 .. Len(migrations[W]) :
                           migrations[W][i].Version = m.Version
          IN  /\ Malformed(m) => r = ErrInvalidMigration
              /\ (~Malformed(m) /\ taken) => r.kind = "ErrVersionConflict"
              /\ (~Malformed(m) /\ ~taken) => r = ErrNil
              /\ r # ErrNil => migrations'[W] = migrations[W]
              /\ r = ErrNil => migrations'[W] = Append(migrations[W], m)]_vars

\* C13 witness: the second Add of version 001 was rejected with
\* ErrVersionConflict and the registry holds one migration.
C13_Witness ==
    /\ Returns({"Add"})
    /\ obs[W].arg.Version = V001
    /\ obs[W].result = ErrVersionConflict
    /\ Len(migrations[W]) = 1

\* C14: the registry entry is a copy of the caller's Migration: a write of
\* the caller to the version, the name, the SQL text or the manual checksum
\* of its variable after Add leaves the registry as it is, so every registry
\* entry is a value that was passed to Add, the records Up writes carry the
\* name and checksum of such a value, and Status reports it.
C14_RegistryOwnsCopy ==
    /\ [][(callerM' # callerM /\ ~Calling("Add")) => migrations' = migrations]_vars
    /\ [](/\ \A i \in 1 .. Len(migrations[W]) : migrations[W][i] \in ValidInputs
          /\ \A v \in DOMAIN store : \E m \in ValidInputs :
                m.Version = v /\ store[v] = RecordRow(m)
          /\ (Returns({"Status"}) /\ obs[W].result = ErrNil) =>
                \A i \in 1 .. Len(obs[W].report) : \E m \in ValidInputs :
                    obs[W].report[i] = statusOf(m, Snap))

\* C14 witness: the caller has emptied the version of the variable it
\* registered as 2; Up has recorded 2 and Status reports it applied.
C14_Witness ==
    /\ Returns({"Status"}) /\ obs[W].result = ErrNil
    /\ callerM[W].value.Version = <<>>
    /\ Len(obs[W].report) = 1
    /\ obs[W].report[1].Version = V2
    /\ obs[W].report[1].Status = StatusApplied

Report == obs[W].report

\* C15: a Status that returns no error returns one entry per registered
\* migration, in registration order, with its version and name; the entry is
\* pending iff the reloaded set has no record of the version, modified iff it
\* has one whose checksum differs from the migration's checksum and the
\* migration's checksum is not the no-checksum marker, applied otherwise; the
\* applied time is set iff the entry is not pending.  A Status that returns
\* an error returns no entries.
C15_StatusReport ==
    Returns({"Status"}) =>
        IF obs[W].result # ErrNil THEN Report = <<>>
        ELSE /\ Len(Report) = Len(migrations[W])
             /\ \A i \in 1 .. Len(Report) :
                   LET m == migrations[W][i]
                       e == Report[i]
                       found == m.Version \in DOMAIN Snap
                       differs == /\ found
                                  /\ Snap[m.Version].Checksum # Checksum(m)
                                  /\ Checksum(m) # noChecksumMarker
                   IN  /\ e.Version = m.Version /\ e.Name = m.Name
                       /\ e.Status \in {StatusPending, StatusApplied, StatusModified}
                       /\ e.Status = StatusPending <=> ~found
                       /\ e.Status = StatusModified <=> differs
                       /\ e.Status = StatusApplied <=> (found /\ ~differs)
                       /\ e.AppliedAt <=> e.Status # StatusPending

\* C15 witness: Status reports 10, registered first, as modified and 2 as
\* pending.
C15_Witness ==
    /\ Returns({"Status"}) /\ obs[W].result = ErrNil
    /\ Len(Report) = 2
    /\ Report[1].Version = V10 /\ Report[1].Status = StatusModified
    /\ Report[2].Version = V2 /\ Report[2].Status = StatusPending

\* a migration whose actions are Go functions only, without a manual checksum
FuncOnly(m) ==
    /\ m.UpFunc \/ m.DownFunc
    /\ m.UpSQL = "" /\ m.DownSQL = ""
    /\ m.ManualChecksum = ""

RegistrySound ==
    /\ \A i, j \in 1 .. Len(migrations[W]) :
          migrations[W][i].Version = migrations[W][j].Version => i = j
    /\ \A i \in 1 .. Len(migrations[W]) : ~Malformed(migrations[W][i])

\* the registered migrations whose record at the reload differs, by index
MismatchAt ==
    {i \in 1 .. Len(migrations[W]) :
        /\ migrations[W][i].Version \in DOMAIN Snap
        /\ Snap[migrations[W][i].Version].Checksum # Checksum(migrations[W][i])
        /\ Checksum(migrations[W][i]) # noChecksumMarker}

\* C17 (as amended): Validate on a Queen without a driver makes no driver
\* call; on a registry that is not empty, has no duplicate version and only
\* well-formed migrations it returns nil, and on an empty registry it returns
\* ErrNoMigrations.
C17_ValidateWithoutDriver ==
    (Returns({"Validate"}) /\ ~driver[W]) =>
        /\ Calls = <<>>
        /\ (RegistrySound /\ Len(migrations[W]) > 0) => obs[W].result = ErrNil
        /\ Len(migrations[W]) = 0 => obs[W].result = ErrNoMigrations

\* C17 witness: Validate without a driver has returned nil for a registry of
\* two migrations while the store holds a record that differs.
C17_Witness ==
    /\ Returns({"Validate"}) /\ ~driver[W]
    /\ Len(migrations[W]) = 2
    /\ migrations[W][1] = MixedMigration(V10)
    /\ V10 \in DOMAIN store
    /\ obs[W].result = ErrNil

\* C17 as stated: without a driver Validate succeeds whenever the registry
\* has no duplicate version and every registered migration is well-formed.
C17_Original ==
    (Returns({"Validate"}) /\ ~driver[W] /\ RegistrySound) => obs[W].result = ErrNil

\* C18 (as amended): with a driver and a sound registry that is not empty,
\* a Validate whose Init and GetApplied succeed returns the checksum-mismatch
\* error iff some registered migration has a record at the reload whose
\* checksum differs from the migration's checksum, that checksum not being
\* the no-checksum marker, and nil otherwise; the error names the first such
\* migration in registration order, the stored checksum and the current one.
\* When Init or GetApplied fails Validate returns that error, and on an empty
\* registry ErrNoMigrations.
C18_ValidateChecksums ==
    (Returns({"Validate"}) /\ driver[W] /\ RegistrySound) =>
        IF Len(migrations[W]) = 0 THEN obs[W].result = ErrNoMigrations /\ Calls = <<>>
        ELSE IF ~NothingFailed
        THEN obs[W].result = Err(Calls[Len(Calls)].out)
        ELSE /\ CalledOk("GetApplied")
             /\ obs[W].result.kind = "ErrChecksumMismatch" <=> MismatchAt # {}
             /\ MismatchAt = {} => obs[W].result = ErrNil
             /\ MismatchAt # {} =>
                   LET i == CHOOSE x \in MismatchAt : \A y \in MismatchAt : x <= y
                       m == migrations[W][i]
                   IN  /\ obs[W].result.Version = m.Version
                       /\ obs[W].result.Expected = Snap[m.Version].Checksum
                       /\ obs[W].result.Got = Checksum(m)

\* C18 witness: Validate names 2, the second registered migration, with the
\* stored and the current checksum; the first one's record agrees.
C18_Witness ==
    /\ Returns({"Validate"}) /\ driver[W]
    /\ Len(migrations[W]) = 2
    /\ migrations[W][1] = SqlMigration(V10) /\ V10 \in DOMAIN Snap
    /\ obs[W].result = ChecksumMismatchError(V2, Calculate("CREATE v0", ""), "v1")

\* C18 as stated: with a driver and a well-formed registry Validate returns
\* the checksum-mismatch error iff some registered migration's record differs
\* as above, and nil otherwise.
C18_Original ==
    (Returns({"Validate"}) /\ driver[W] /\ RegistrySound) =>
        LET differ == {i \in 1 .. Len(migrations[W]) :
                          /\ migrations[W][i].Version \in DOMAIN store
                          /\ store[migrations[W][i].Version].Checksum
                                # Checksum(migrations[W][i])
                          /\ Checksum(migrations[W][i]) # noChecksumMarker}
        IN  /\ obs[W].result.kind = "ErrChecksumMismatch" <=> differ # {}
            /\ differ = {} => obs[W].result = ErrNil

\* C19: Status and Validate call nothing on the driver but Init and
\* GetApplied, so no Lock, Unlock, Exec, Record or Remove; no step of theirs
\* changes the driver's records or its lock; and while the lock is held
\* outside for the whole call they are not refused: when no driver call
\* fails Status returns its report and Validate returns nil or the
\* checksum mismatch it found.
C19_ReadsTouchNothing ==
    /\ [](obs[W].op \in ReadOps =>
             \A i \in 1 .. Len(Calls) : Calls[i].call \in {"Init", "GetApplied"})
    /\ [][(frame'[W] # frame[W] /\ obs'[W].op \in ReadOps) =>
             (store' = store /\ locked' = locked /\ extHolds' = extHolds)]_vars
    /\ [](Returns(ReadOps) =>
             /\ store = obs[W].store0
             /\ obs[W].result.kind # "ErrLockTimeout"
             /\ (driver[W] /\ obs[W].extHeld /\ NothingFailed /\ Len(migrations[W]) > 0) =>
                   /\ locked /\ extHolds
                   /\ CalledOk("GetApplied")
                   /\ obs[W].op = "Status" =>
                         obs[W].result = ErrNil /\ Len(Report) = Len(migrations[W])
                   /\ obs[W].op = "Validate" =>
                         obs[W].result.kind \in {"nil", "ErrChecksumMismatch"})

\* C19 witness: Status has returned a report of two entries while the lock
\* was held outside, and the lock is still held.
C19_Witness ==
    /\ Returns({"Status"}) /\ obs[W].result = ErrNil
    /\ obs[W].extHeld /\ locked
    /\ Len(Report) = 2
    /\ ~config[W].SkipLock

\* the last two calls the watched Queen has made after this step are a
\* successful Exec of v and a successful call of kind for v
JustDone(v, kind) ==
    LET cs == obs'[W].calls
    IN  /\ Len(cs) >= 2
        /\ Len(cs) = Len(obs[W].calls) + 1
        /\ cs[Len(cs) - 1].call = "Exec" /\ cs[Len(cs) - 1].v = v
        /\ cs[Len(cs) - 1].out = "ok"
        /\ cs[Len(cs)].call = kind /\ cs[Len(cs)].v = v
        /\ cs[Len(cs)].out = "ok"

\* C20: in every step, a version gets a record in the store only when Record
\* has just succeeded for it in UpSteps, right after its up action succeeded
\* under Exec, and the record is that of the registered migration; a version
\* loses its record only when Remove has just succeeded for it in Down or
\* Reset, right after its down action succeeded; no record is rewritten; so
\* Add, Status, Validate, Close and failed calls change no record.
C20_RecordsFollowExecution ==
    [][/\ \A v \in DOMAIN store' \ DOMAIN store :
             /\ obs'[W].op = "UpSteps"
             /\ JustDone(v, "Record")
             /\ store'[v] = [Name |-> Registered(v).Name,
                             Checksum |-> Checksum(Registered(v))]
       /\ \A v \in DOMAIN store \ DOMAIN store' :
             /\ obs'[W].op \in {"Down", "Reset"}
             /\ JustDone(v, "Remove")
       /\ \A v \in DOMAIN store \cap DOMAIN store' : store'[v] = store[v]
       /\ Cardinality(DOMAIN store' \ DOMAIN store)
             + Cardinality(DOMAIN store \ DOMAIN store') <= 1
       /\ (\/ obs'[W].op \in {"Add", "Status", "Validate", "Close"}
           \/ /\ Len(obs'[W].calls) > Len(obs[W].calls)
              /\ obs'[W].calls[Len(obs'[W].calls)].out # "ok")
             => store' = store]_vars

\* C20 witness: an Up on an empty store has recorded 2 and then failed on
\* the Record of 10; the store holds the record of 2 only.
C20_Witness ==
    /\ Returns({"UpSteps"})
    /\ obs[W].store0 = <<>>
    /\ OkVersionsOf(Calls, "Record") = <<V2>>
    /\ \E i \in 1 .. Len(Calls) :
          Calls[i].call = "Record" /\ Calls[i].v = V10 /\ Calls[i].out # "ok"
    /\ DOMAIN store = {V2}

\* C21: on a tracking table that started empty and that only this Queen
\* writes, every record belongs to a registered migration and holds that
\* migration's current checksum; so a Status that succeeds reports no
\* migration as modified and Validate never returns the checksum-mismatch
\* error, whatever Add, Up, UpSteps, Down and Reset came before.
C21_OwnRecordsAgree ==
    /\ \A v \in DOMAIN store :
          /\ v \in RegisteredVersions
          /\ store[v].Checksum = Checksum(Registered(v))
    /\ (Returns({"Status"}) /\ obs[W].result = ErrNil) =>
          \A i \in 1 .. Len(Report) : Report[i].Status # StatusModified
    /\ Returns({"Validate"}) => obs[W].result.kind # "ErrChecksumMismatch"

\* C21 witness: Validate has returned nil after reloading the records of an
\* SQL migration and of a Go migration with a manual checksum, both written
\* by this Queen.
C21_Witness ==
    /\ Returns({"Validate"}) /\ obs[W].result = ErrNil
    /\ DOMAIN Snap = {V2, V10}
    /\ Snap[V2].Checksum = Calculate("CREATE", "DROP TABLE")
    /\ Snap[V10].Checksum = "v1"

\* the call of Compare on the strings a and b (and c) has returned
Compared == cmp.pc = "done"

\* C22 as stated: Compare(a,a) = 0; Compare(a,b) and Compare(b,a) have
\* opposite signs; and Compare(a,b) <= 0 with Compare(b,c) <= 0 implies
\* Compare(a,c) <= 0.
C22_Original ==
    Compared =>
        /\ cmp.aa = 0
        /\ cmp.ab = 0 - cmp.ba
        /\ (cmp.ab <= 0 /\ cmp.bc <= 0) => cmp.ac <= 0

\* a non-empty string of digits only
IsRun(s) == Len(s) > 0 /\ \A k \in 1 .. Len(s) : IsDigit(s[k])

NoDigits(s) == \A k \in 1 .. Len(s) : ~IsDigit(s[k])

\* a digit run without its leading zeros
RECURSIVE Strip(_)
Strip(s) == IF Len(s) > 0 /\ Head(s) = "0" THEN Strip(Tail(s)) ELSE s

\* the order of the non-negative integers two digit runs denote
Magnitude(a, b) ==
    LET x == Strip(a)
        y == Strip(b)
    IN  IF Len(x) # Len(y) THEN sign(Len(x) - Len(y))
        ELSE IF x = y THEN 0
        ELSE IF StrLess(x, y) THEN -1 ELSE 1

\* the run denotes a number below 10^18, which an int of IntBits bits holds
FitsInt(s) == Len(Strip(s)) <= 18

\* bytewise lexicographic order as -1, 0, 1
Lexical(a, b) == IF a = b THEN 0 ELSE IF StrLess(a, b) THEN -1 ELSE 1

Front(s) == SubSeq(s, 1, Len(s) - 1)

\* C23: Compare puts the strings of each example chain ("1" "2" "10" "100",
\* "001" "010" "100", "v1" "v2" "v10", "post_001" "user_001", "001" "001a"
\* "002") in that order; two digit runs whose values an int holds and
\* differ compare as the numbers they denote, whatever their leading zeros
\* (when the values are equal the run with fewer zeros comes first); two
\* strings without digits compare bytewise; a digit run followed by one
\* letter sorts after the run itself and before every run that denotes a
\* larger number.
C23_NaturalOrder ==
    Compared =>
        LET a == cmp.a
            b == cmp.b
        IN  /\ (\E ch \in ExampleChains : \E i, j \in 1 .. Len(ch) :
                    i < j /\ a = ch[i] /\ b = ch[j])
                  => (cmp.ab = -1 /\ cmp.ba = 1)
            /\ (IsRun(a) /\ IsRun(b) /\ FitsInt(a) /\ FitsInt(b))
                  => cmp.ab = IF Magnitude(a, b) # 0 THEN Magnitude(a, b)
                              ELSE sign(Len(a) - Len(b))
            /\ (NoDigits(a) /\ NoDigits(b)) => cmp.ab = Lexical(a, b)
            /\ (IsRun(a) /\ FitsInt(a) /\ Len(b) = Len(a) + 1 /\ Front(b) = a
                  /\ ~IsDigit(b[Len(b)]))
                  => cmp.ab = -1
            /\ (Len(a) > 1 /\ IsRun(Front(a)) /\ ~IsDigit(a[Len(a)]) /\ IsRun(b)
                  /\ FitsInt(Front(a)) /\ FitsInt(b) /\ Magnitude(Front(a), b) < 0)
                  => cmp.ab = -1

\* C23 witness: Compare has put "001a" before "002".
C23_Witness ==
    /\ Compared
    /\ cmp.a = <<"0", "0", "1", "a">> /\ cmp.b = <<"0", "0", "2">>
    /\ cmp.ab = -1 /\ cmp.ba = 1

\* C24 as stated: two digit runs of any length that denote different
\* non-negative integers compare as those integers.
C24_Original ==
    (Compared /\ IsRun(cmp.a) /\ IsRun(cmp.b) /\ Magnitude(cmp.a, cmp.b) # 0)
        => cmp.ab = Magnitude(cmp.a, cmp.b)

\* C25 as stated: Compare returns 0 for equal strings only, and when the
\* scan ends with a exhausted and characters of b left, a sorts first.
C25_Original ==
    Compared =>
        /\ cmp.ab = 0 => cmp.a = cmp.b
        /\ LET e == scanEnd(cmp.a, cmp.b, 1, 1)
           IN  (e # <<0, 0>> /\ e[1] > Len(cmp.a) /\ e[2] <= Len(cmp.b)) => cmp.ab = -1

\* the last driver call of the watched Queen was a GetApplied that succeeded
\* and work is left: it stands before the first Exec of its work set
JustLoaded ==
    /\ frame[W].pc = "exec"
    /\ Len(Calls) > 0
    /\ Calls[Len(Calls)].call = "GetApplied"

VersionsIn(work) == [k \in 1 .. Len(work) |-> work[k].Version]

\* C26 as stated: when a second Queen that holds the same migrations in
\* another registration order reloads, for the same call with the same step
\* count, from the store state the first Queen reloaded from, it sets out to
\* execute the same migrations in the same order.
C26_Original ==
    [][\A q \in Procs \ {W} :
          (/\ JustLoaded
           /\ frame[q].pc = "load" /\ frame'[q].pc = "exec"
           /\ frame[q].op = frame[W].op /\ frame[q].n = frame[W].n
           /\ store = Snap
           /\ Range(migrations[q]) = Range(migrations[W]))
              => VersionsIn(frame'[q].work) = VersionsIn(frame[W].work)]_vars

\* the checksum the rules give for the fields m
ChecksumRule(m) ==
    IF m.ManualChecksum # "" THEN m.ManualChecksum
    ELSE IF m.UpSQL # "" \/ m.DownSQL # "" THEN Calculate(m.UpSQL, m.DownSQL)
    ELSE "no-checksum-go-func"

\* C27 (as amended): on a Migration value that is not a copy of a value
\* whose checksum was already computed, the first call of Checksum returns
\* the manual checksum if one is set, otherwise the hash of UpSQL followed by
\* DownSQL if either is non-empty, otherwise "no-checksum-go-func", computed
\* from the fields at that call; on a copy of a value whose checksum was
\* computed the first call returns the checksum memoized in the original;
\* every later call on the value returns what the first call returned, also
\* when fields were written to in between.
C27_MemoizedChecksum ==
    \A c \in DOMAIN inst :
        inst[c].called =>
            /\ inst[c].last = inst[c].first
            /\ inst[c].first = IF inst[c].inherited # "" THEN inst[c].inherited
                               ELSE ChecksumRule(inst[c].atFirst)

\* C27 witness: Checksum was called again after UpSQL was changed and has
\* returned the hash of the text the first call saw, which is no longer the
\* checksum of the fields.
C27_Witness ==
    /\ inst[1].called /\ inst[1].again
    /\ inst[1].atFirst.UpSQL = "CREATE" /\ inst[1].m.UpSQL = "ALTER"
    /\ inst[1].m.ManualChecksum = "" /\ inst[1].atFirst.ManualChecksum = ""
    /\ inst[1].last = Calculate("CREATE", inst[1].atFirst.DownSQL)
    /\ inst[1].last # ChecksumRule(inst[1].m)

\* C27 as stated: on every Migration value the first call of Checksum
\* returns the checksum the rules give for its fields at that call, and
\* every later call returns the same.
C27_Original ==
    \A c \in DOMAIN inst :
        inst[c].called =>
            /\ inst[c].last = inst[c].first
            /\ inst[c].first = ChecksumRule(inst[c].atFirst)

\* the calls of Lock among the driver calls, by index
LockCalls == {i \in 1 .. Len(Calls) : Calls[i].call = "Lock"}

\* C28 as stated: whatever the caller assigns afterwards to the Config it
\* passed to NewWithConfig, an Up or Down whose Init succeeds takes the lock
\* iff the Queen was built with SkipLock false, and passes to Lock the
\* timeout the Queen was built with.
C28_Original ==
    (Returns(MutatingOps) /\ CalledOk("Init")) =>
        /\ LockCalls # {} <=> ~callerCfg[W].built.SkipLock
        /\ LockCalls # {} => obs[W].timeout = callerCfg[W].built.LockTimeout

\* C29: on a Queen without a driver UpSteps (and Up), Down, Reset and Status
\* return ErrNoDriver and Close returns nil, without a driver call; on a Queen
\* with a driver and an empty registry UpSteps returns ErrNoMigrations
\* without a driver call, whereas Down and Reset go on to Init and return nil
\* when no driver call fails.
C29_FailFast ==
    /\ (Returns({"UpSteps", "Down", "Reset", "Status"}) /\ ~driver[W]) =>
          (obs[W].result = ErrNoDriver /\ Calls = <<>>)
    /\ (Returns({"Close"}) /\ ~driver[W]) => (obs[W].result = ErrNil /\ Calls = <<>>)
    /\ (Returns({"UpSteps"}) /\ driver[W] /\ migrations[W] = <<>>) =>
          (obs[W].result = ErrNoMigrations /\ Calls = <<>>)
    /\ (Returns({"Down", "Reset"}) /\ driver[W] /\ migrations[W] = <<>>) =>
          /\ Len(Calls) > 0 /\ Calls[1].call = "Init"
          /\ obs[W].result # ErrNoMigrations
          /\ NothingFailed => obs[W].result = ErrNil

\* C29 witness: Reset on an empty registry has returned nil, after Init, Lock
\* and GetApplied, and has left the records of the store alone.
C29_Witness ==
    /\ Returns({"Reset"}) /\ driver[W] /\ migrations[W] = <<>>
    /\ CalledOk("Init") /\ CalledOk("Lock") /\ CalledOk("GetApplied")
    /\ obs[W].result = ErrNil
    /\ DOMAIN store = {V2, V10}

\* the calls of GetApplied among the driver calls, by index
ReloadCalls == {i \in 1 .. Len(Calls) : Calls[i].call = "GetApplied"}

WorkLog == SelectSeq(Calls, LAMBDA c : c.call \in WorkCalls)

\* C31: at every moment of an UpSteps, Down or Reset the calls made for the
\* work set are Exec, Record (or Remove), Exec, Record, ... : each Record or
\* Remove follows the successful Exec of the same version, each Exec after the
\* first follows the successful Record or Remove of the migration before it
\* and is for a version not worked on before, and the Queen is about to call
\* Record or Remove exactly when the last of these calls is a successful Exec.
C31_StrictlySequential ==
    obs[W].op \in MutatingOps =>
        /\ \A i \in 1 .. Len(WorkLog) :
              /\ i % 2 = 1 <=> WorkLog[i].call = "Exec"
              /\ i % 2 = 0 =>
                    /\ WorkLog[i].call = IF obs[W].op = "UpSteps" THEN "Record" ELSE "Remove"
                    /\ WorkLog[i].v = WorkLog[i - 1].v
              /\ i > 1 => WorkLog[i - 1].out = "ok"
              /\ \A j \in 1 .. (i - 2) : WorkLog[j].v # WorkLog[i].v
        /\ frame[W].pc \in {"record", "remove"} <=>
              (Len(WorkLog) % 2 = 1 /\ WorkLog[Len(WorkLog)].out = "ok")
        /\ frame[W].pc = "exec" =>
              /\ Len(WorkLog) % 2 = 0
              /\ \A j \in 1 .. Len(WorkLog) : WorkLog[j].v # Head(frame[W].work).Version

\* C31 witness: a Reset has executed and removed 10, has executed the down
\* action of 2 and is about to remove its record.
C31_Witness ==
    /\ obs[W].op = "Reset" /\ frame[W].pc = "remove"
    /\ Len(WorkLog) = 3
    /\ WorkLog[2].call = "Remove" /\ WorkLog[2].v = V10
    /\ WorkLog[3].call = "Exec" /\ WorkLog[3].v = V2

\* the driver calls before the Unlock that failed
FailedBeforeUnlock == {i \in 1 .. Len(Calls) : Calls[i].call # "Unlock" /\ Calls[i].out # "ok"}

\* what the operation has to return by the calls it made before the Unlock:
\* the error of the call that failed, wrapped when it was made for a
\* migration; else the no-down-migration error of the migration Down or Reset
\* stopped at; else nil
OwnResult ==
    IF FailedBeforeUnlock # {}
    THEN LET c == Calls[CHOOSE i \in FailedBeforeUnlock : \A j \in FailedBeforeUnlock : i <= j]
         IN  IF c.call \in WorkCalls
             THEN newMigrationError(c.v, Registered(c.v).Name, c.out)
             ELSE DriverError(c.out)
    ELSE IF obs[W].op # "UpSteps" /\ Len(OkVersionsOf(Calls, "Remove")) < Len(DownWork)
    THEN NoRollbackError(DownWork[Len(OkVersionsOf(Calls, "Remove")) + 1])
    ELSE ErrNil

\* C32: an UpSteps, Down or Reset that called Unlock returns what its calls
\* before the Unlock determine, whether the Unlock succeeded or failed: nil
\* when none of them failed and the work set was worked through, else the
\* operation's own error; the error of Unlock is never the value returned.
C32_UnlockErrorDropped ==
    (Returns(MutatingOps) /\ Called("Unlock")) => obs[W].result = OwnResult

\* C32 witness: an Up recorded 2 and 10, its Unlock failed, and it returned
\* nil.
C32_Witness ==
    /\ Returns({"UpSteps"}) /\ Called("Unlock")
    /\ Calls[Len(Calls)].call = "Unlock" /\ Calls[Len(Calls)].out = "DriverErr"
    /\ OkVersionsOf(Calls, "Record") = <<V2, V10>>
    /\ obs[W].result = ErrNil

\* C33 as stated: once the context was cancelled inside the loop over the
\* work set, no action of a further migration is executed, the call returns
\* an error, and a call that took the lock has called Unlock last, with
\* context.Background().
C33_Original ==
    [][(frame[W].cancelled /\ frame[W].op \in MutatingOps) =>
          /\ ~(/\ frame[W].pc = "exec"
               /\ Len(obs'[W].calls) = Len(Calls) + 1
               /\ obs'[W].calls[Len(Calls) + 1].out = "ok")
          /\ frame'[W].pc = "done" =>
                /\ obs'[W].result # ErrNil
                /\ frame[W].deferred =>
                      /\ obs'[W].calls[Len(obs'[W].calls)].call = "Unlock"
                      /\ obs'[W].calls[Len(obs'[W].calls)].ctx = BackgroundCtx]_vars

\* the call the watched Queen makes in this step, when it makes one
MakesCall(kind, out) ==
    /\ Len(obs'[W].calls) = Len(Calls) + 1
    /\ obs'[W].calls[Len(Calls) + 1].call = kind
    /\ obs'[W].calls[Len(Calls) + 1].out = out

\* C34: on a tracking table whose records hold the checksum of an earlier
\* text, Status reports modified exactly the registered migrations whose
\* record still holds that checksum and applied exactly those whose record
\* holds the current one; a Remove that succeeds deletes the record and a
\* Record that succeeds writes the migration's current checksum, so that the
\* migration then counts as applied; UpSteps, Down and Reset return an error
\* only when a driver call failed or a migration has no down action, and an
\* UpSteps that finds the differing record leaves it as it is.
C34_ReapplyClearsModified ==
    /\ [](Returns({"Status"}) /\ obs[W].result = ErrNil =>
            \A i \in 1 .. Len(Report) :
                LET v == Report[i].Version
                IN  /\ Report[i].Status = StatusModified <=>
                          (v \in DOMAIN Snap /\ Snap[v] = EditedRow(v))
                    /\ Report[i].Status = StatusApplied <=>
                          (v \in DOMAIN Snap /\ Snap[v] = RecordRow(migrations[W][i])))
    /\ [](Returns(MutatingOps) =>
            /\ obs[W].result # ErrNil =>
                  (FailedBeforeUnlock # {} \/ obs[W].result.Err = "no down migration defined")
            /\ obs[W].op = "UpSteps" /\ CalledOk("GetApplied") =>
                  \A v \in DOMAIN Snap : v \in DOMAIN store /\ store[v] = Snap[v])
    /\ [][/\ (frame[W].pc = "record" /\ MakesCall("Record", "ok")) =>
                LET m == Head(frame[W].work)
                IN  /\ m.Version \notin DOMAIN store
                    /\ store'[m.Version].Checksum = Checksum(m)
                    /\ statusOf(m, store').Status = StatusApplied
                    /\ statusOf(m, applied'[W]).Status = StatusApplied
          /\ (frame[W].pc = "remove" /\ MakesCall("Remove", "ok")) =>
                LET m == Head(frame[W].work)
                IN  /\ m.Version \notin DOMAIN store'
                    /\ statusOf(m, store').Status = StatusPending]_vars

\* C34 witness: every record started with the earlier checksum; Status now
\* reports 10 as applied, so 10 was rolled back and applied again in between,
\* while 2, not touched, is still reported as modified.
C34_Witness ==
    /\ Returns({"Status"}) /\ obs[W].result = ErrNil
    /\ Len(Report) = 2
    /\ Report[1].Version = V10 /\ Report[1].Status = StatusApplied
    /\ Report[2].Version = V2 /\ Report[2].Status = StatusModified

\* Queen p calls Exec, or Record, in this step
ExecStep(p) == frame[p].pc = "exec" /\ frame'[p] # frame[p]

RecordStep(p) == frame[p].pc = "record" /\ frame'[p] # frame[p]

\* the version Queen p is working on
AtVersion(p) == Head(frame[p].work).Version

\* C35 (as amended): with locking enabled and several Queens holding the same
\* registry running Up concurrently on one store, no Queen calls Exec or
\* Record for a version that has a record in the store, a record once written
\* is neither rewritten nor removed, and a Queen executes the up action of a
\* version the watched Up has executed only when the Exec or the Record of
\* that version failed in the watched Up.
C35_LockedUpOnce ==
    [][~config[W].SkipLock =>
          /\ \A p \in Procs :
                (ExecStep(p) \/ RecordStep(p)) => AtVersion(p) \notin DOMAIN store
          /\ \A v \in DOMAIN store : v \in DOMAIN store' /\ store'[v] = store[v]
          /\ \A p \in Procs \ {W} :
                (ExecStep(p) /\ AtVersion(p) \in Range(VersionsOf(Calls, "Exec"))) =>
                    \E i \in FailedWorkCalls : Calls[i].v = AtVersion(p)]_vars

\* C35 witness: with locking, the Record of 2 failed in the watched Up after
\* its up action ran; Queen 2, which took the lock next, has executed the up
\* action of 2 again and is about to record it.
C35_Witness ==
    /\ ~config[W].SkipLock
    /\ Returns({"UpSteps"})
    /\ \E i \in FailedWorkCalls : Calls[i].call = "Record" /\ Calls[i].v = V2
    /\ frame[2].pc = "record" /\ AtVersion(2) = V2
    /\ Holding(2)

\* C35 as stated: with locking enabled, a version whose up action ran to its
\* end in the watched Up is not executed by another Up, and a version for
\* which the watched Up has called Record gets no Record call from another Up.
C35_Original ==
    [][~config[W].SkipLock =>
          \A p \in Procs \ {W} :
              /\ ExecStep(p) => AtVersion(p) \notin Range(OkVersionsOf(Calls, "Exec"))
              /\ RecordStep(p) => AtVersion(p) \notin Range(VersionsOf(Calls, "Record"))]_vars

\* C36: with SkipLock set, no Queen running UpSteps, Down or Reset comes to
\* call Lock or to have an Unlock pending, the driver's lock is never taken,
\* and the watched call has made no Lock and no Unlock call.
C36_SkipLockNoLock ==
    (\A p \in Procs : config[p].SkipLock) =>
        /\ \A p \in Procs : frame[p].pc \notin {"lock", "unlock"} /\ ~Holding(p)
        /\ ~locked
        /\ obs[W].op \in MutatingOps => (~Called("Lock") /\ ~Called("Unlock"))

\* C36 witness: with SkipLock set, two Queens running Up found 2 pending,
\* each has executed the up action of 2, and each is about to call Record
\* for it.
C36_Witness ==
    /\ \A p \in Procs : config[p].SkipLock
    /\ frame[1].op = "UpSteps" /\ frame[2].op = "UpSteps"
    /\ frame[1].pc = "record" /\ frame[2].pc = "record"
    /\ AtVersion(1) = V2 /\ AtVersion(2) = V2
    /\ OkVersionsOf(Calls, "Exec") = <<V2>>

\* C37: an UpSteps, Down or Reset whose Lock call failed has made no driver
\* call after it and none but Init before it, has no Unlock pending and has
\* returned; and while a caller outside holds the driver's lock, no step of
\* the Queen releases it.
C37_FailedLockStops ==
    /\ [](obs[W].op \in MutatingOps =>
            \A i \in LockCalls :
                Calls[i].out # "ok" =>
                    /\ i = Len(Calls)
                    /\ \A j \in 1 .. (i - 1) : Calls[j].call = "Init"
                    /\ ~Holding(W)
                    /\ frame[W].pc = "done"
                    /\ obs[W].result = Err(Calls[i].out))
    /\ [][(locked /\ extHolds /\ extHolds') => locked']_vars

\* C37 witness: a Reset was refused the lock, which a caller outside holds;
\* it called Init and Lock only and the lock is still held.
C37_Witness ==
    /\ Returns({"Reset"})
    /\ Len(Calls) = 2
    /\ Calls[2].call = "Lock" /\ Calls[2].out = "ErrLockTimeout"
    /\ locked /\ extHolds
    /\ DOMAIN store = {V2, V10} /\ RegisteredVersions = {V2, V10}

\* C38: with one Queen and no other writer of the store, from the reload of
\* an UpSteps, Down, Reset, Status or Validate on, the cache holds exactly the
\* versions the store holds, with the same name and checksum: before and
\* after every Exec, after every Record and Remove, failed or not, and when
\* the call returns.
C38_CacheIsStore ==
    (obs[W].op \in MutatingOps \cup ReadOps /\ CalledOk("GetApplied")) =>
        /\ DOMAIN applied[W] = DOMAIN store
        /\ \A v \in DOMAIN store :
              /\ applied[W][v].Name = store[v].Name
              /\ applied[W][v].Checksum = store[v].Checksum

\* C38 witness: Down(2) removed 10, then the Remove of 2 failed; the cache and
\* the store both hold 2 and no longer 10.
C38_Witness ==
    /\ Returns({"Down"}) /\ obs[W].n = 2
    /\ OkVersionsOf(Calls, "Remove") = <<V10>>
    /\ \E i \in FailedWorkCalls : Calls[i].call = "Remove" /\ Calls[i].v = V2
    /\ DOMAIN applied[W] = {V2} /\ DOMAIN store = {V2}

\* the Record and Remove calls of the watched call that failed
FailedUpdates ==
    {i \in FailedWorkCalls : Calls[i].call \in {"Record", "Remove"}}

PrevFail == obs[W].prevFail

\* C39: when the Record (or the Remove) of a migration fails in UpSteps (or
\* Down, Reset), the Exec before it was for the same migration and succeeded,
\* no driver call but the Unlock follows, so nothing undoes the action; the
\* call returns the MigrationError of that migration wrapping the driver's
\* error; the store and the cache are as that Exec found them, without the
\* version after a failed Record and with its record after a failed Remove.
\* The UpSteps called next after a failed Record, and the Down or Reset called
\* next after a failed Remove, finds the cache and the store in that state and
\* calls Exec for the same migration first once its Init and GetApplied have
\* succeeded.
C39_RecordNotAtomic ==
    /\ Returns(MutatingOps) =>
          \A i \in FailedUpdates :
              LET v == Calls[i].v
              IN  /\ i > 1
                  /\ Calls[i - 1].call = "Exec" /\ Calls[i - 1].v = v
                  /\ Calls[i - 1].out = "ok"
                  /\ \A j \in (i + 1) .. Len(Calls) : Calls[j].call = "Unlock"
                  /\ obs[W].result = newMigrationError(v, Registered(v).Name, Calls[i].out)
                  /\ Calls[i].out \in {"DriverErr", "CtxErr"}
                  /\ IF Calls[i].call = "Record"
                     THEN v \notin DOMAIN store /\ v \notin DOMAIN applied[W]
                     ELSE /\ v \in DOMAIN store /\ store[v] = Snap[v]
                          /\ v \in DOMAIN applied[W] /\ applied[W][v] = Snap[v]
    /\ (PrevFail # <<>> /\ CalledOk("GetApplied")
          /\ obs[W].op \in (IF PrevFail[1] = "Record" THEN {"UpSteps"} ELSE {"Down", "Reset"})) =>
          /\ IF PrevFail[1] = "Record" THEN PrevFail[2] \notin DOMAIN Snap
                                       ELSE PrevFail[2] \in DOMAIN Snap
          /\ frame[W].pc # "exec" => Called("Exec")
          /\ Called("Exec") => VersionsOf(Calls, "Exec")[1] = PrevFail[2]

\* C39 witness: the Record of 2 failed in the Up before; this Up has
\* executed the up action of 2 again, has recorded it, and has gone on to 10.
C39_Witness ==
    /\ Returns({"UpSteps"}) /\ obs[W].n = 0
    /\ PrevFail = <<"Record", V2>>
    /\ OkVersionsOf(Calls, "Exec") = <<V2, V10>>
    /\ OkVersionsOf(Calls, "Record") = <<V2, V10>>
    /\ obs[W].result = ErrNil

\* C40: whatever Add calls were made, accepted or rejected, no two registered
\* migrations share a version and each one has a version, a name and an up
\* action; the first loop of Validate finds nothing, so Validate returns
\* neither the version-conflict error nor the invalid-migration error.
C40_RegistryAlwaysSound ==
    /\ RegistrySound
    /\ \A i \in 1 .. Len(migrations[W]) : Validate(migrations[W][i]) = ErrNil
    /\ registryCheck(migrations[W], 1, {}) = ErrNil
    /\ Returns({"Validate"}) =>
          obs[W].result.kind \notin {"ErrVersionConflict", "ErrInvalidMigration"}

\* C40 witness: on a registry of two migrations the Add of a migration
\* without a name was rejected, and the registry still holds the two.
C40_Witness ==
    /\ Returns({"Add"})
    /\ obs[W].arg.Name = "" /\ obs[W].arg.Version = V001
    /\ obs[W].result = ErrInvalidMigration
    /\ Len(migrations[W]) = 2
    /\ V001 \in RegisteredVersions

====
